---- MODULE Spec2Model ----
(***************************************************************************)
(* The tunnel supervision engine of easytunnel (main.go): the              *)
(* TunnelManager's collection and persisted store, every Tunnel's fields,  *)
(* the supervision goroutines (maintain with the connect() call it is      *)
(* executing), the health-check goroutines, the launched Start goroutines  *)
(* that have not run yet, and the external processes (the ssh clients and  *)
(* unrelated owners of the local ports).                                   *)
(*                                                                         *)
(* One action is one handler or one step of a goroutine between two points *)
(* at which other goroutines can run: a step that takes t.mutex or         *)
(* tm.mutex is atomic up to the unlock.                                    *)
(***************************************************************************)
EXTENDS Integers, Sequences, FiniteSets, TLC

(* Bounds of the model. *)
MaxObjs == 2
MaxTasks == 2
MaxPending == 1

Objs == 1..MaxObjs
Tasks == 1..MaxTasks

Names == {"db", "web"}
Ports == {"5432"}

(***************************************************************************)
(* Command lines.  A command is modelled by the argument list it splits    *)
(* into; the tables below say what the code's string tests answer for each *)
(* argument.                                                               *)
(***************************************************************************)
CmdDb == <<"ssh", "-L", "5432:internal:5432", "user@host">>
CmdNoForward == <<"ssh", "user@host">>
CmdNotSsh == <<"telnet", "-L", "5432:internal:5432", "user@host">>
CmdEmpty == <<>>
Commands == {CmdDb, CmdNoForward, CmdNotSsh, CmdEmpty}

(* The port matched by (\d+): at the head of an argument, "" when none. *)
ForwardPort(arg) == IF arg = "5432:internal:5432" THEN "5432" ELSE ""

(* strings.HasPrefix(arg, "-") *)
IsFlag(arg) == arg \in {"-L", "-N", "-T"}

(* The part after "@" of a user@host argument, "" when the argument has no "@". *)
HostAfterAt(arg) == IF arg = "user@host" THEN "host" ELSE ""

(* strings.Contains(args[0], "ssh") *)
ContainsSsh(arg) == arg \in {"ssh", "/usr/bin/ssh"}

(* extractLocalPort: the first "-L <port>:" of the command, "" for the error. *)
extractLocalPort(command) ==
    LET hits == {i \in 1..(Len(command) - 1) :
                    command[i] = "-L" /\ ForwardPort(command[i + 1]) # ""}
    IN IF hits = {} THEN ""
       ELSE ForwardPort(command[(CHOOSE i \in hits : \A j \in hits : i <= j) + 1])

(* parseSSHCommand fails exactly on a command without arguments. *)
parseFails(command) == Len(command) = 0

(* extractSSHHost: scanning from the last argument, the host of the first  *)
(* user@host argument, or the last argument itself when it is no flag.     *)
RECURSIVE hostFrom(_, _)
hostFrom(args, i) ==
    IF i = 0 THEN ""
    ELSE IF ~IsFlag(args[i]) /\ HostAfterAt(args[i]) # "" THEN HostAfterAt(args[i])
    ELSE IF ~IsFlag(args[i]) /\ i = Len(args) THEN args[i]
    ELSE hostFrom(args, i - 1)

extractSSHHost(command) ==
    IF parseFails(command) THEN "" ELSE hostFrom(command, Len(command))

(***************************************************************************)
(* Error texts.                                                            *)
(***************************************************************************)
ErrNetwork == "Network unavailable - waiting for connection"
ErrHost == "SSH host unreachable"
ErrFreePort == "Failed to free port"
ErrParse == "Failed to parse command"
ErrNotSsh == "Command must start with 'ssh'"
ErrStartSsh == "Failed to start SSH"
ErrTunnelFailed == "SSH tunnel failed"
ErrEstablish == "Connection failed to establish"
ErrHealthProcess == "SSH process terminated unexpectedly"
ErrHealthPort == "Local port no longer accessible"
ErrHealthNetwork == "Network connectivity lost"

RetNoPort == "could not extract local port from command"
RetFreePort == "failed to free port"
RetStillBusy == "port is still not available after cleanup attempt"
RetNotFound == "tunnel not found"

(***************************************************************************)
(* State.                                                                  *)
(***************************************************************************)
VARIABLES
    tunnels,    \* tm.tunnels: name -> Tunnel object, 0 when the name is absent
    store,      \* the persisted file: the set of TunnelConfig records in it
    config,     \* Tunnel.config of each object
    status,     \* Tunnel.status
    lastError,  \* Tunnel.lastError
    cmd,        \* Tunnel.cmd: the goroutine whose exec.Cmd it is, or NoCmd, DeadCmd, UnstartedCmd
    cancel,     \* Tunnel.cancel: the goroutine whose context it cancels, 0 when nil
    starts,     \* launched `go tunnel.Start()` calls that have not run yet
    task,       \* the supervision goroutines, one per context made by Start
    ext,        \* the unrelated process on each port
    ret,        \* what the manager call that made this state returned, NoRet after any other step
    connectedAt,    \* Tunnel.connectedAt in seconds, 0 when it is the zero time
    now,            \* time.Now() in seconds
    lastSnapshots,  \* startStatusBroadcaster: the snapshots of the last broadcast
    published,      \* the status_update events the last tick of the broadcaster published
    rc,             \* a call of killProcessesOnPort and the processes of its port
    sse,            \* TunnelManager.sseClients, sseMutex and the calls that use them
    nm,             \* the NetworkMonitor, its goroutines and what they have emitted
    lk,             \* tm.mutex and the Tunnels' mutexes, and the calls that take them
    hm              \* a Tunnel's healthTicker field and its health-check goroutines

vars == <<tunnels, store, config, status, lastError, cmd, cancel, starts, task, ext, ret,
          connectedAt, now, lastSnapshots, published, rc, sse, nm, lk, hm>>

NoCmd == 0
(* An exec.Cmd of a goroutine that has returned: its process has exited. *)
DeadCmd == 0 - 1
(* An exec.Cmd of a goroutine that has returned whose Process is nil. *)
UnstartedCmd == 0 - 2

BlankConfig ==
    [name |-> "", command |-> <<>>, localPort |-> "", enabled |-> FALSE,
     autoExtracted |-> FALSE]

(* A slot of `task` that holds no goroutine. *)
FreeTask ==
    [obj |-> 0, pc |-> "done", cancelled |-> TRUE, wasNetworkDown |-> FALSE,
     retryDelay |-> 0, success |-> FALSE, proc |-> "none"]

NoRet == [op |-> "none", name |-> "", err |-> "", reclaimed |-> FALSE]

LiveProc == {"running", "bound"}
ExitedProc == {"exited_ok", "exited_err"}

(* The port an ssh client binds: the one its own command line forwards. *)
BindPort(k) == extractLocalPort(config[task[k].obj].command)

(* The goroutines whose ssh client listens on a port. *)
Listeners(port) ==
    {k \in Tasks : task[k].obj # 0 /\ task[k].proc = "bound" /\ BindPort(k) = port}

(* isPortAvailable: binding the port succeeds. *)
isPortAvailable(port) ==
    port \in Ports => (ext[port] # "running" /\ Listeners(port) = {})


(***************************************************************************)
(* Port reclamation.                                                       *)
(***************************************************************************)
Killed(tk, pids) ==
    [k \in Tasks |-> IF k \in pids THEN [tk[k] EXCEPT !.proc = "exited_err"] ELSE tk[k]]

killProcessesOnPortAll(port, lsof, sig) ==
    [err |-> FALSE, task |-> Killed(task, Listeners(port)),
     ext |-> [ext EXCEPT ![port] = "absent"]]

(* killProcessesOnPort, and ensurePortAvailable around it.  lsof: the      *)
(* process listing works and names the owners (it yields the empty list    *)
(* when it fails); sig: the signals reach the unrelated owner (they do not *)
(* when the manager lacks the privilege).  The ssh clients are the         *)
(* manager's own children and die of the signals.  Yields the error        *)
(* returned, the goroutines' processes and the unrelated owners afterwards.*)
killProcessesOnPort(port, lsof, sig) ==
    LET pids == IF lsof THEN Listeners(port) ELSE {}
        extListed == lsof /\ port \in Ports /\ ext[port] = "running"
    IN IF pids = {} /\ ~extListed
       THEN [err |-> FALSE, task |-> task, ext |-> ext]
       ELSE [err |-> extListed /\ ~sig,
             task |-> Killed(task, pids),
             ext |-> IF extListed /\ sig THEN [ext EXCEPT ![port] = "absent"] ELSE ext]

ensurePortAvailable(port, lsof, sig) ==
    IF isPortAvailable(port)
    THEN [err |-> FALSE, task |-> task, ext |-> ext]
    ELSE killProcessesOnPort(port, lsof, sig)

AvailableUnchecked(port, r) == TRUE

(* isPortAvailable evaluated on the processes left by a reclamation. *)
AvailableAfter(port, r) ==
    port \in Ports =>
        /\ r.ext[port] # "running"
        /\ \A k \in Listeners(port) : r.task[k].proc # "bound"

(***************************************************************************)
(* Objects and goroutine slots.  A Tunnel that is neither in the           *)
(* collection nor referenced by a goroutine is garbage: its fields are     *)
(* blanked and its identifier is handed out again.  A slot is free again   *)
(* when maintain has returned.  An exec.Cmd whose connect() has returned   *)
(* stands for an exited process (DeadCmd), or for none when cmd.Start()    *)
(* failed (UnstartedCmd).  A maintain that waits in a select on       *)
(* ctx.Done() (the head of the loop, waitForNetwork, the two timed waits)  *)
(* returns when its context is cancelled; nothing else reads or writes in  *)
(* that return, so it is taken in the step that cancels.  The health       *)
(* checkers of a context wait in such a select too.                        *)
(***************************************************************************)
Used(o, tn, pn, kn) ==
    \/ \E n \in Names : tn[n] = o
    \/ pn[o] > 0
    \/ \E k \in Tasks : kn[k].obj = o

(* Where maintain waits in a select that has a ctx.Done() case. *)
Selecting == {"top", "netwait", "hostwait", "retry"}

Unused == {o \in Objs : ~Used(o, tunnels, starts, task)}
FreeTasks == {k \in Tasks : task[k].obj = 0}
Least(S) == CHOOSE x \in S : \A y \in S : x <= y

saveConfigStale(tn, cn) == {config[tn[n]] : n \in {m \in Names : tn[m] # 0}}

(* saveConfig: the file holds the configs of the collection.               *)
saveConfig(tn, cn) == {cn[tn[n]] : n \in {m \in Names : tn[m] # 0}}

(* The next state from the values an action computed.  connectedAt is read *)
(* only while the status is connected, and whatever writes that status     *)
(* writes connectedAt with it: it is kept only for a connected Tunnel.      *)
CommitAt(tn, sn, cn, stn, en, cmn, can, pn, kn, at) ==
    LET back == {k \in Tasks : kn[k].obj # 0 /\ kn[k].pc = "retry"
                                /\ kn[k].proc \in ExitedProc \cup {"created"}}
        gone == {k \in Tasks : kn[k].obj # 0 /\ kn[k].cancelled /\ kn[k].pc \in Selecting}
        kf == [k \in Tasks |-> IF k \in gone THEN FreeTask
                               ELSE IF k \in back THEN [kn[k] EXCEPT !.proc = "none"]
                               ELSE kn[k]]
        live(o) == Used(o, tn, pn, kf)
    IN /\ tunnels' = tn
       /\ store' = sn
       /\ starts' = pn
       /\ task' = kf
       /\ config' = [o \in Objs |-> IF live(o) THEN cn[o] ELSE BlankConfig]
       /\ status' = [o \in Objs |-> IF live(o) THEN stn[o] ELSE "disconnected"]
       /\ lastError' = [o \in Objs |-> IF live(o) THEN en[o] ELSE ""]
       /\ cmd' = [o \in Objs |->
                    IF ~live(o) THEN NoCmd
                    ELSE IF cmn[o] \in back
                    THEN (IF kn[cmn[o]].proc = "created" THEN UnstartedCmd ELSE DeadCmd)
                    ELSE cmn[o]]
       /\ cancel' = [o \in Objs |-> IF live(o) /\ can[o] \notin gone THEN can[o] ELSE 0]
       /\ connectedAt' = [o \in Objs |->
                            IF live(o) /\ stn[o] = "connected" THEN at[o] ELSE 0]
       /\ UNCHANGED <<now, lastSnapshots, published, rc, sse, nm, lk, hm>>

Commit(tn, sn, cn, stn, en, cmn, can, pn, kn) ==
    CommitAt(tn, sn, cn, stn, en, cmn, can, pn, kn, connectedAt)

(***************************************************************************)
(* Tunnel.Start and Tunnel.Stop.                                           *)
(***************************************************************************)
(* Stop on the goroutines: t.cancel() and t.cmd.Process.Kill(). *)
StopTasks(o, tk) ==
    [k \in Tasks |->
        LET a == IF k = cancel[o] THEN [tk[k] EXCEPT !.cancelled = TRUE] ELSE tk[k]
        IN IF k = cmd[o] /\ a.proc \in LiveProc THEN [a EXCEPT !.proc = "exited_err"] ELSE a]

(* maintain's delays, in seconds. *)
InitialDelay == 5
ShortDelay == 2
ModerateDelay == 10
MaxRetryDelay == 60

(* The goroutine made by Start: context, health checker, `go t.maintain(ctx)`. *)
NewTask(o) ==
    [obj |-> o, pc |-> "top", cancelled |-> FALSE, wasNetworkDown |-> FALSE,
     retryDelay |-> InitialDelay, success |-> FALSE, proc |-> "none"]

StartAlways(o) ==
    /\ starts[o] > 0
    /\ ret' = NoRet /\ ext' = ext
    /\ FreeTasks # {}
    /\ LET k == Least(FreeTasks)
           old == [j \in Tasks |->
                     IF j = cancel[o] THEN [task[j] EXCEPT !.cancelled = TRUE]
                     ELSE task[j]]
       IN Commit(tunnels, store, config,
                 [status EXCEPT ![o] = "connecting"], lastError, cmd,
                 [cancel EXCEPT ![o] = k],
                 [starts EXCEPT ![o] = @ - 1],
                 [old EXCEPT ![k] = NewTask(o)])

(* A launched `go tunnel.Start()` runs. *)
Start(o) ==
    /\ starts[o] > 0
    /\ ret' = NoRet /\ ext' = ext
    /\ IF status[o] \in {"connected", "connecting"}
       THEN Commit(tunnels, store, config, status, lastError, cmd, cancel,
                   [starts EXCEPT ![o] = @ - 1], task)
       ELSE /\ FreeTasks # {}
            /\ LET k == Least(FreeTasks)
                   old == [j \in Tasks |->
                             IF j = cancel[o] THEN [task[j] EXCEPT !.cancelled = TRUE]
                             ELSE task[j]]
               IN Commit(tunnels, store, config,
                         [status EXCEPT ![o] = "connecting"], lastError, cmd,
                         [cancel EXCEPT ![o] = k],
                         [starts EXCEPT ![o] = @ - 1],
                         [old EXCEPT ![k] = NewTask(o)])

(***************************************************************************)
(* TunnelManager.                                                          *)
(***************************************************************************)
(* A manager call returns "tunnel not found": nothing else happens. *)
NotFoundDenied(op, name) ==
    /\ ret' = [op |-> op, name |-> name, err |-> "", reclaimed |-> FALSE]
    /\ UNCHANGED <<tunnels, store, config, status, lastError, cmd, cancel, starts, task, ext,
                   connectedAt, now, lastSnapshots, published, rc, sse, nm, lk, hm>>

NotFound(op, name) ==
    /\ ret' = [op |-> op, name |-> name, err |-> RetNotFound, reclaimed |-> FALSE]
    /\ UNCHANGED <<tunnels, store, config, status, lastError, cmd, cancel, starts, task, ext,
                   connectedAt, now, lastSnapshots, published, rc, sse, nm, lk, hm>>

(* AddTunnel returns an error: r is what the port reclamation left. *)
AddFailsSaved(cfgIn, e, r) ==
    /\ ret' = [op |-> "add", name |-> cfgIn.name, err |-> e, reclaimed |-> r.ext # ext]
    /\ ext' = r.ext
    /\ Commit(tunnels, store \cup {cfgIn}, config, status, lastError, cmd, cancel, starts,
              r.task)

AddFails(cfgIn, e, r) ==
    /\ ret' = [op |-> "add", name |-> cfgIn.name, err |-> e, reclaimed |-> r.ext # ext]
    /\ ext' = r.ext
    /\ Commit(tunnels, store, config, status, lastError, cmd, cancel, starts, r.task)

AddTunnel(cfgIn, lsof, sig) ==
    LET port == IF cfgIn.localPort = "" THEN extractLocalPort(cfgIn.command)
                ELSE cfgIn.localPort
        c == IF cfgIn.localPort = ""
             THEN [cfgIn EXCEPT !.localPort = port, !.autoExtracted = TRUE]
             ELSE cfgIn
        r == ensurePortAvailable(port, lsof, sig)
        \* &Tunnel{...}: an object nothing will refer to once the entry of
        \* the name is replaced
        free == {o \in Objs : ~Used(o, [tunnels EXCEPT ![cfgIn.name] = 0], starts, task)}
    IN IF port = ""
       THEN AddFails(cfgIn, RetNoPort, [err |-> FALSE, task |-> task, ext |-> ext])
       ELSE IF r.err THEN AddFails(cfgIn, RetFreePort, r)
       ELSE IF ~AvailableAfter(port, r) THEN AddFails(cfgIn, RetStillBusy, r)
       ELSE /\ free # {}
            /\ LET o == Least(free)
                   tn == [tunnels EXCEPT ![cfgIn.name] = o]
                   cn == [config EXCEPT ![o] = c]
               IN /\ ret' = [op |-> "add", name |-> cfgIn.name, err |-> "",
                             reclaimed |-> r.ext # ext]
                  /\ ext' = r.ext
                  /\ Commit(tn, saveConfig(tn, cn), cn,
                            [status EXCEPT ![o] = "disconnected"],
                            [lastError EXCEPT ![o] = ""],
                            [cmd EXCEPT ![o] = NoCmd],
                            [cancel EXCEPT ![o] = 0],
                            [starts EXCEPT ![o] = IF c.enabled THEN 1 ELSE 0],
                            r.task)

ToggleTunnel(name) ==
    IF tunnels[name] = 0
    THEN NotFound("toggle", name)
    ELSE LET o == tunnels[name]
             cn == [config EXCEPT ![o].enabled = ~@]
         IN /\ cn[o].enabled => starts[o] < MaxPending
            /\ ret' = [op |-> "toggle", name |-> name, err |-> "", reclaimed |-> FALSE]
            /\ ext' = ext
            /\ IF cn[o].enabled
               THEN Commit(tunnels, saveConfig(tunnels, cn), cn, status, lastError, cmd,
                           cancel, [starts EXCEPT ![o] = @ + 1], task)
               ELSE Commit(tunnels, saveConfig(tunnels, cn), cn,
                           [status EXCEPT ![o] = "disconnected"], lastError, cmd,
                           cancel, starts, StopTasks(o, task))

DeleteTunnel(name) ==
    IF tunnels[name] = 0
    THEN NotFound("delete", name)
    ELSE LET o == tunnels[name]
             tn == [tunnels EXCEPT ![name] = 0]
         IN /\ ret' = [op |-> "delete", name |-> name, err |-> "", reclaimed |-> FALSE]
            /\ ext' = ext
            /\ Commit(tn, saveConfig(tn, config), config,
                      [status EXCEPT ![o] = "disconnected"], lastError, cmd,
                      cancel, starts, StopTasks(o, task))


(***************************************************************************)
(* Tunnel.maintain, one action per step of the goroutine in slot k.        *)
(* Only the slot, and the status and lastError of its Tunnel, change.      *)
(***************************************************************************)
StepOn(base, k, tk, st, er) ==
    /\ ret' = NoRet
    /\ Commit(tunnels, store, config,
              [status EXCEPT ![task[k].obj] = st],
              [lastError EXCEPT ![task[k].obj] = er],
              cmd, cancel, starts, [base EXCEPT ![k] = tk])

Step(k, tk, st, er) == StepOn(task, k, tk, st, er)

Quiet(k, tk) == Step(k, tk, status[task[k].obj], lastError[task[k].obj])

DoubleUncapped(d) == d * 2

Double(d) == IF d * 2 > MaxRetryDelay THEN MaxRetryDelay ELSE d * 2

(* The head of the loop: the default case of the select on ctx.Done(). *)
MaintainTop(k) ==
    /\ task[k].obj # 0 /\ task[k].pc = "top"
    /\ ext' = ext
    /\ Quiet(k, [task[k] EXCEPT !.pc = "probe"])

(* The connectivity checks of one iteration.  net: isNetworkAvailable's    *)
(* answer; host: whether the dial to the host's port 22 succeeds.          *)
MaintainProbe(k, net, host) ==
    LET t == task[k]
        o == t.obj
        d == IF t.wasNetworkDown THEN ShortDelay ELSE t.retryDelay
    IN /\ o # 0 /\ t.pc = "probe"
       /\ ext' = ext
       /\ IF ~net
          THEN Step(k, [t EXCEPT !.pc = "netwait", !.wasNetworkDown = TRUE],
                    IF t.wasNetworkDown THEN status[o] ELSE "error",
                    IF t.wasNetworkDown THEN lastError[o] ELSE ErrNetwork)
          ELSE IF ~(host /\ extractSSHHost(config[o].command) # "")
          THEN Step(k, [t EXCEPT !.pc = "hostwait", !.wasNetworkDown = FALSE,
                                 !.retryDelay = d],
                    "error", ErrHost)
          ELSE Quiet(k, [t EXCEPT !.pc = "c_port", !.wasNetworkDown = FALSE,
                                  !.retryDelay = InitialDelay])

(* waitForNetwork returns: a tick found the network. *)
MaintainNetWait(k) ==
    /\ task[k].obj # 0 /\ task[k].pc = "netwait"
    /\ ext' = ext
    /\ Quiet(k, [task[k] EXCEPT !.pc = "top"])

(* The wait after an unreachable host: the timer fires, the delay doubles. *)
MaintainHostWait(k) ==
    /\ task[k].obj # 0 /\ task[k].pc = "hostwait"
    /\ ext' = ext
    /\ Quiet(k, [task[k] EXCEPT !.pc = "top", !.retryDelay = Double(@)])

(* The wait after connect() has returned. *)
MaintainRetry(k) ==
    /\ task[k].obj # 0 /\ task[k].pc = "retry"
    /\ ext' = ext
    /\ Quiet(k, [task[k] EXCEPT !.pc = "top", !.success = FALSE,
                    !.retryDelay = IF task[k].success THEN ModerateDelay ELSE Double(@)])

(***************************************************************************)
(* Tunnel.connect, called by maintain.                                     *)
(***************************************************************************)
ReturnNoWait(t, ok) == [t EXCEPT !.pc = "top", !.success = ok]

(* connect() returns to maintain's wait. *)
Return(t, ok) == [t EXCEPT !.pc = "retry", !.success = ok]

(* Under t.mutex: the port check, the reclamation, status connecting. *)
ConnectPort(k, lsof, sig) ==
    LET t == task[k]
        o == t.obj
        r == ensurePortAvailable(config[o].localPort, lsof, sig)
    IN /\ o # 0 /\ t.pc = "c_port"
       /\ ext' = r.ext
       /\ IF r.err
          THEN StepOn(r.task, k, Return(t, FALSE), "error", ErrFreePort)
          ELSE StepOn(r.task, k, [t EXCEPT !.pc = "c_cmd"], "connecting", "")

(* The command is parsed and checked, the exec.Cmd is made and stored in t.cmd. *)
ConnectCmd(k) ==
    LET t == task[k]
        o == t.obj
        command == config[o].command
    IN /\ o # 0 /\ t.pc = "c_cmd"
       /\ ext' = ext
       /\ IF parseFails(command)
          THEN Step(k, Return(t, FALSE), "error", ErrParse)
          ELSE IF ~ContainsSsh(command[1])
          THEN Step(k, Return(t, FALSE), "error", ErrNotSsh)
          ELSE /\ ret' = NoRet
               /\ Commit(tunnels, store, config, status, lastError,
                         [cmd EXCEPT ![o] = k], cancel, starts,
                         [task EXCEPT ![k] = [t EXCEPT !.pc = "c_start", !.proc = "created"]])

(* cmd.Start(). *)
ConnectStart(k, ok) ==
    LET t == task[k]
    IN /\ t.obj # 0 /\ t.pc = "c_start"
       /\ ext' = ext
       /\ IF ok
          THEN Quiet(k, [t EXCEPT !.pc = "c_poll", !.proc = "running"])
          ELSE Step(k, Return(t, FALSE), "error", ErrStartSsh)

(* isPortOpen and verifyPortConnection: something accepts on the local port. *)
isPortOpen(o) == ~isPortAvailable(config[o].localPort)

(* The loop of maxAttempts (15) one-second attempts.  The counter i is not  *)
(* kept: an attempt that finds the port open ends the loop connected; one  *)
(* that does not is the last one (last) or leaves the loop where it is.    *)
ConnectPoll(k, last) ==
    LET t == task[k]
    IN /\ t.obj # 0 /\ t.pc = "c_poll"
       /\ ext' = ext
       /\ IF isPortOpen(t.obj)
          THEN Quiet(k, [t EXCEPT !.pc = "c_up"])
          ELSE Quiet(k, [t EXCEPT !.pc = IF last THEN "c_fail" ELSE "c_poll"])

(* connected: the status and connectedAt are written. *)
ConnectUp(k) ==
    /\ task[k].obj # 0 /\ task[k].pc = "c_up"
    /\ ext' = ext
    /\ ret' = NoRet
    /\ CommitAt(tunnels, store, config,
                [status EXCEPT ![task[k].obj] = "connected"],
                [lastError EXCEPT ![task[k].obj] = ""],
                cmd, cancel, starts, [task EXCEPT ![k] = [task[k] EXCEPT !.pc = "c_wait"]],
                [connectedAt EXCEPT ![task[k].obj] = now])

(* cmd.Wait() returns with the exit status of the process. *)
ConnectWait(k) ==
    LET t == task[k]
    IN /\ t.obj # 0 /\ t.pc = "c_wait" /\ t.proc \in ExitedProc
       /\ ext' = ext
       /\ IF t.proc = "exited_err"
          THEN Step(k, Return(t, TRUE), "error", ErrTunnelFailed)
          ELSE Step(k, Return(t, TRUE), "disconnected", "")

ConnectFailLeaves(k) ==
    LET t == task[k]
    IN /\ t.obj # 0 /\ t.pc = "c_fail"
       /\ ext' = ext
       /\ Step(k, Return(t, FALSE), "error", ErrEstablish)

(* Not connected: the process is killed, the status is error. *)
ConnectFail(k) ==
    LET t == task[k]
        dead == IF t.proc \in LiveProc THEN [t EXCEPT !.proc = "exited_err"] ELSE t
    IN /\ t.obj # 0 /\ t.pc = "c_fail"
       /\ ext' = ext
       /\ Step(k, Return(dead, FALSE), "error", ErrEstablish)

(***************************************************************************)
(* The health checkers of a context.                                       *)
(***************************************************************************)
HealthCheckKills(k, net) ==
    LET o == task[k].obj
        dead == Killed(task, {cmd[o]} \cap Tasks)
    IN /\ o # 0 /\ ~task[k].cancelled
       /\ ext' = ext
       /\ IF status[o] # "connected" THEN Quiet(k, task[k])
          ELSE IF ~isPortOpen(o) \/ ~net
          THEN StepOn(dead, k, dead[k], "error", ErrHealthPort)
          ELSE Quiet(k, task[k])

(* performHealthCheck on a tick of a health checker whose context is not   *)
(* cancelled.  net: isNetworkAvailable's answer.                           *)
HealthCheck(k, net) ==
    LET o == task[k].obj
    IN /\ o # 0 /\ ~task[k].cancelled
       /\ ext' = ext
       /\ IF status[o] # "connected" THEN Quiet(k, task[k])
          ELSE IF cmd[o] = NoCmd \/ cmd[o] = UnstartedCmd
                  \/ (cmd[o] \in Tasks /\ task[cmd[o]].proc = "created")
          THEN Step(k, task[k], "error", ErrHealthProcess)
          ELSE IF ~isPortOpen(o) THEN Step(k, task[k], "error", ErrHealthPort)
          ELSE IF ~net THEN Step(k, task[k], "error", ErrHealthNetwork)
          ELSE Quiet(k, task[k])

(***************************************************************************)
(* The processes.                                                          *)
(***************************************************************************)
(* The ssh client sets up its forward and listens on the port. *)
ProcBind(k) ==
    /\ task[k].obj # 0 /\ task[k].proc = "running"
    /\ BindPort(k) # "" /\ isPortAvailable(BindPort(k))
    /\ ext' = ext
    /\ Quiet(k, [task[k] EXCEPT !.proc = "bound"])

(* The ssh client exits by itself, cleanly or not. *)
ProcExit(k, clean) ==
    /\ task[k].obj # 0 /\ task[k].proc \in LiveProc
    /\ ext' = ext
    /\ Quiet(k, [task[k] EXCEPT !.proc = IF clean THEN "exited_ok" ELSE "exited_err"])

(* An unrelated process binds a free port, or goes away. *)
ExtBind(port) ==
    /\ isPortAvailable(port)
    /\ ext' = [ext EXCEPT ![port] = "running"]
    /\ ret' = NoRet
    /\ UNCHANGED <<tunnels, store, config, status, lastError, cmd, cancel, starts, task,
                   connectedAt, now, lastSnapshots, published, rc, sse, nm, lk, hm>>

ExtExit(port) ==
    /\ ext[port] = "running"
    /\ ext' = [ext EXCEPT ![port] = "absent"]
    /\ ret' = NoRet
    /\ UNCHANGED <<tunnels, store, config, status, lastError, cmd, cancel, starts, task,
                   connectedAt, now, lastSnapshots, published, rc, sse, nm, lk, hm>>

(***************************************************************************)
(* The variables of the manager and its Tunnels, which the parts below      *)
(* leave alone.                                                            *)
(***************************************************************************)
manager ==
    <<tunnels, store, config, status, lastError, cmd, cancel, starts, task, ext, ret,
      connectedAt, now, lastSnapshots, published>>

(***************************************************************************)
(* killProcessesOnPort step by step, on one port.  rc.owners are the        *)
(* processes with a socket on the port.  A polite process exits of TERM, a  *)
(* stubborn one ignores TERM and exits of KILL, an immune one (another      *)
(* user's, when the manager lacks the privilege) gets no signal at all.     *)
(* rc.hit are the processes a signal has doomed, rc.gone those that have    *)
(* exited; rc.termed and rc.killed are the processes the running (or last)  *)
(* call has sent TERM and KILL.                                            *)
(***************************************************************************)
MaxPids == 2
Pids == 1..MaxPids
Kinds == {"polite", "stubborn", "immune"}

RcInit ==
    [pc |-> "idle", lsof |-> TRUE, owners |-> {}, kind |-> [p \in Pids |-> "polite"],
     hit |-> {}, gone |-> {}, termed |-> {}, killed |-> {}, err |-> FALSE]

(* getProcessesUsingPort: the owners, or nobody when lsof fails. *)
getProcessesUsingPort == IF rc.lsof THEN rc.owners ELSE {}

(* The call, its first listing and the TERM pass.  lsof: whether lsof works *)
(* during this call.                                                       *)
RcCall(lsof) ==
    LET pids == IF lsof THEN rc.owners ELSE {}
    IN /\ rc.pc \in {"idle", "done"}
       /\ rc' = IF pids = {}
                THEN [rc EXCEPT !.pc = "done", !.lsof = lsof, !.termed = {}, !.killed = {},
                                !.err = FALSE]
                ELSE [rc EXCEPT !.pc = "grace", !.lsof = lsof, !.termed = pids, !.killed = {},
                                !.err = FALSE,
                                !.hit = @ \cup {p \in pids : rc.kind[p] = "polite"}]
       /\ UNCHANGED <<manager, sse, nm, lk, hm>>

(* After the sleep of 2s: the second listing and the KILL pass. *)
RcForce ==
    LET remainingPids == getProcessesUsingPort
    IN /\ rc.pc = "grace"
       /\ rc' = [rc EXCEPT !.pc = "settle", !.killed = remainingPids,
                           !.hit = @ \cup {p \in remainingPids : rc.kind[p] # "immune"}]
       /\ UNCHANGED <<manager, sse, nm, lk, hm>>

RcFinalAlwaysOk ==
    /\ rc.pc = "settle"
    /\ rc' = [rc EXCEPT !.pc = "done", !.err = FALSE]
    /\ UNCHANGED <<manager, sse, nm, lk, hm>>

(* After the sleep of 1s: the final listing and the verdict. *)
RcFinal ==
    LET finalPids == getProcessesUsingPort
    IN /\ rc.pc = "settle"
       /\ rc' = [rc EXCEPT !.pc = "done", !.err = (finalPids # {})]
       /\ UNCHANGED <<manager, sse, nm, lk, hm>>

(* A process opens a socket on the port. *)
OwnerBind(p, kind) ==
    /\ p \notin rc.owners \cup rc.gone
    /\ rc' = [rc EXCEPT !.owners = @ \cup {p}, !.kind[p] = kind]
    /\ UNCHANGED <<manager, sse, nm, lk, hm>>

(* A process that got a signal it does not survive exits. *)
OwnerExit(p) ==
    /\ p \in rc.owners \cap rc.hit
    /\ rc' = [rc EXCEPT !.owners = @ \ {p}, !.gone = @ \cup {p}]
    /\ UNCHANGED <<manager, sse, nm, lk, hm>>

NextReclaim ==
    \/ \E lsof \in BOOLEAN : RcCall(lsof)
    \/ RcForce
    \/ RcFinal
    \/ \E p \in Pids, kind \in Kinds : OwnerBind(p, kind)
    \/ \E p \in Pids : OwnerExit(p)

(***************************************************************************)
(* The SSE subscribers.  A channel is made by AddSSEClient, with room for   *)
(* QueueCap messages, and closed by the RemoveSSEClient its handler defers. *)
(* AddSSEClient and RemoveSSEClient hold sseMutex for writing, a            *)
(* BroadcastSSE holds it for reading from its first line to its return:     *)
(* sse.bc are the BroadcastSSE calls, those not idle hold the read lock.    *)
(***************************************************************************)
MaxChans == 2
MaxBcasts == 2
QueueCap == 10

Chans == 1..MaxChans
Bcasts == 1..MaxBcasts
Msgs == {"status_update"}

IdleBcast == [pc |-> "idle", msg |-> "", todo |-> {}, sent |-> {}, dropped |-> {}]

SseInit ==
    [made |-> {}, clients |-> {}, closed |-> {}, queue |-> [c \in Chans |-> <<>>],
     bc |-> [b \in Bcasts |-> IdleBcast], panicked |-> FALSE]

LockAnyway == TRUE

(* sseMutex.Lock() returns: no BroadcastSSE holds the read lock. *)
Lock == \A b \in Bcasts : sse.bc[b].pc = "idle"

(* AddSSEClient, the whole call under the write lock. *)
AddSSEClient ==
    /\ Lock
    /\ sse.made # Chans
    /\ LET client == Least(Chans \ sse.made)
       IN sse' = [sse EXCEPT !.made = @ \cup {client}, !.clients = @ \cup {client}]
    /\ UNCHANGED <<manager, rc, nm, lk, hm>>

(* RemoveSSEClient, the whole call under the write lock: delete and close. *)
RemoveSSEClient(client) ==
    /\ Lock
    /\ client \in sse.made \ sse.closed
    /\ sse' = [sse EXCEPT !.clients = @ \ {client}, !.closed = @ \cup {client}]
    /\ UNCHANGED <<manager, rc, nm, lk, hm>>

(* BroadcastSSE takes the read lock and starts to range over sseClients. *)
BroadcastBegin(b, msg) ==
    /\ sse.bc[b].pc = "idle"
    /\ sse' = [sse EXCEPT !.bc[b] = [pc |-> "loop", msg |-> msg, todo |-> sse.clients,
                                     sent |-> {}, dropped |-> {}]]
    /\ UNCHANGED <<manager, rc, nm, lk, hm>>

BroadcastSendBlocking(b, client) ==
    /\ sse.bc[b].pc = "loop" /\ client \in sse.bc[b].todo
    /\ Len(sse.queue[client]) < QueueCap
    /\ sse' = [sse EXCEPT !.queue[client] = Append(@, sse.bc[b].msg),
                          !.bc[b].todo = @ \ {client},
                          !.bc[b].sent = @ \cup {client}]
    /\ UNCHANGED <<manager, rc, nm, lk, hm>>

(* The select of one iteration: the send, or the default case when the      *)
(* buffer is full.  A send on a closed channel panics.                     *)
BroadcastSend(b, client) ==
    LET call == sse.bc[b]
        room == Len(sse.queue[client]) < QueueCap
    IN /\ call.pc = "loop" /\ client \in call.todo
       /\ sse' = IF client \in sse.closed
                 THEN [sse EXCEPT !.panicked = TRUE, !.bc[b].todo = @ \ {client}]
                 ELSE IF room
                 THEN [sse EXCEPT !.queue[client] = Append(@, call.msg),
                                  !.bc[b].todo = @ \ {client},
                                  !.bc[b].sent = @ \cup {client}]
                 ELSE [sse EXCEPT !.bc[b].todo = @ \ {client},
                                  !.bc[b].dropped = @ \cup {client}]
       /\ UNCHANGED <<manager, rc, nm, lk, hm>>

(* The range is over: BroadcastSSE returns and releases the read lock. *)
BroadcastEnd(b) ==
    /\ sse.bc[b].pc = "loop" /\ sse.bc[b].todo = {}
    /\ sse' = [sse EXCEPT !.bc[b].pc = "idle"]
    /\ UNCHANGED <<manager, rc, nm, lk, hm>>

(* The handler of /api/events receives a message from its channel. *)
Receive(client) ==
    /\ client \in sse.clients
    /\ sse.queue[client] # <<>>
    /\ sse' = [sse EXCEPT !.queue[client] = Tail(@)]
    /\ UNCHANGED <<manager, rc, nm, lk, hm>>

NextSSE ==
    \/ AddSSEClient
    \/ \E client \in Chans : RemoveSSEClient(client)
    \/ \E b \in Bcasts, msg \in Msgs : BroadcastBegin(b, msg)
    \/ \E b \in Bcasts, client \in Chans : BroadcastSend(b, client)
    \/ \E b \in Bcasts : BroadcastEnd(b)
    \/ \E client \in Chans : Receive(client)

(***************************************************************************)
(* The NetworkMonitor.  nm.starter are the calls of Start, nm.loop the      *)
(* monitor goroutines with their lastNetworkState, nm.callbacks the number  *)
(* of registered callbacks (the manager registers its own, no other exists) *)
(* and nm.pending the launched `go callback(isConnected)` that have not run *)
(* yet, by argument.  nm.calls and nm.events are the callbacks the last     *)
(* step of a monitor goroutine has invoked and the events it has handed to  *)
(* eventSender; nm.op names the last step.                                  *)
(***************************************************************************)
MaxStarters == 2
MaxLoops == 2
MaxCallbacks == 2
MaxCalls == 2

Starters == 1..MaxStarters
Loops == 1..MaxLoops

(* NewNetworkMonitor. *)
NmFresh ==
    [isRunning |-> FALSE, starter |-> [s \in Starters |-> "idle"],
     loop |-> [g \in Loops |-> [pc |-> "none", last |-> FALSE]],
     callbacks |-> 0, pending |-> [b \in BOOLEAN |-> 0],
     calls |-> <<>>, events |-> <<>>, op |-> "none"]

(* NewTunnelManager: Start has launched the goroutine, AddCallback has      *)
(* registered the manager's callback.                                      *)
NmInit ==
    [NmFresh EXCEPT !.isRunning = TRUE, !.loop[1].pc = "first", !.callbacks = 1]

NmStartBlind(s) ==
    /\ nm.starter[s] = "idle"
    /\ nm' = [nm EXCEPT !.isRunning = TRUE, !.starter[s] = "spawn", !.op = "start"]
    /\ UNCHANGED <<manager, rc, sse, lk, hm>>

(* Start under nm.mutex: the check and the assignment of isRunning. *)
NmStart(s) ==
    /\ nm.starter[s] = "idle"
    /\ nm' = IF nm.isRunning
             THEN [nm EXCEPT !.op = "start_noop"]
             ELSE [nm EXCEPT !.isRunning = TRUE, !.starter[s] = "spawn", !.op = "start"]
    /\ UNCHANGED <<manager, rc, sse, lk, hm>>

(* Start after the unlock: `go nm.monitor(ctx)`. *)
NmSpawn(s) ==
    LET free == {g \in Loops : nm.loop[g].pc = "none"}
    IN /\ nm.starter[s] = "spawn"
       /\ free # {}
       /\ nm' = [nm EXCEPT !.starter[s] = "idle", !.loop[Least(free)].pc = "first",
                           !.op = "spawn"]
       /\ UNCHANGED <<manager, rc, sse, lk, hm>>

AddCallback ==
    /\ nm.callbacks < MaxCallbacks
    /\ nm' = [nm EXCEPT !.callbacks = @ + 1, !.op = "add"]
    /\ UNCHANGED <<manager, rc, sse, lk, hm>>

(* monitor: the initial check.  cur: checkNetworkConnectivity's answer. *)
MonitorFirst(g, cur) ==
    /\ nm.loop[g].pc = "first"
    /\ nm' = [nm EXCEPT !.loop[g] = [pc |-> "poll", last |-> cur],
                        !.calls = <<>>, !.events = <<>>, !.op = "first"]
    /\ UNCHANGED <<manager, rc, sse, lk, hm>>

(* What a tick of monitor does with the answer cur, as a new nm. *)
Notified(g, cur) ==
    [nm EXCEPT !.loop[g].last = cur,
               !.pending[cur] = @ + nm.callbacks,
               !.calls = [i \in 1..nm.callbacks |-> [callback |-> i, isConnected |-> cur]],
               !.events = <<[type |-> "network_change", available |-> cur,
                             previous |-> nm.loop[g].last]>>,
               !.op = "poll"]

MonitorPollEager(g, cur) ==
    /\ nm.loop[g].pc = "poll"
    /\ nm.pending[cur] + nm.callbacks <= MaxCalls
    /\ nm' = Notified(g, cur)
    /\ UNCHANGED <<manager, rc, sse, lk, hm>>

(* monitor: a tick of the ticker. *)
MonitorPoll(g, cur) ==
    /\ nm.loop[g].pc = "poll"
    /\ cur # nm.loop[g].last => nm.pending[cur] + nm.callbacks <= MaxCalls
    /\ nm' = IF cur # nm.loop[g].last
             THEN Notified(g, cur)
             ELSE [nm EXCEPT !.calls = <<>>, !.events = <<>>, !.op = "poll"]
    /\ UNCHANGED <<manager, rc, sse, lk, hm>>

(* strings.Contains(tunnel.lastError, "Network") *)
ContainsNetwork(e) == e \in {ErrNetwork, ErrHealthNetwork}

(* onNetworkRestored: the Tunnels of the collection it resets. *)
Restored ==
    {o \in {tunnels[n] : n \in Names} \ {0} :
        config[o].enabled /\ status[o] = "error" /\ ContainsNetwork(lastError[o])}

(* A launched callback of the manager runs. *)
Callback(isConnected) ==
    LET hit == IF isConnected THEN Restored ELSE {}
    IN /\ nm.pending[isConnected] > 0
       /\ nm' = [nm EXCEPT !.pending[isConnected] = @ - 1, !.op = "callback"]
       /\ status' = [o \in Objs |-> IF o \in hit THEN "disconnected" ELSE status[o]]
       /\ lastError' = [o \in Objs |-> IF o \in hit THEN "" ELSE lastError[o]]
       /\ ret' = NoRet
       /\ UNCHANGED <<tunnels, store, config, cmd, cancel, starts, task, ext,
                      connectedAt, now, lastSnapshots, published, rc, sse, lk, hm>>

NextMonitor ==
    \/ \E s \in Starters : NmStart(s)
    \/ \E s \in Starters : NmSpawn(s)
    \/ AddCallback
    \/ \E g \in Loops, cur \in BOOLEAN : MonitorFirst(g, cur)
    \/ \E g \in Loops, cur \in BOOLEAN : MonitorPoll(g, cur)
    \/ \E isConnected \in BOOLEAN : Callback(isConnected)

(***************************************************************************)
(* tm.mutex and the mutex of every Tunnel, both sync.RWMutex, and the      *)
(* calls that take them.  A call is the sequence of lock operations of its *)
(* function, with the operations that wait for something outside the       *)
(* program (a utility, a sleep, a dial) where the function performs them.  *)
(* The mutex 0 is tm.mutex, the mutex o that of the Tunnel o.  A writer    *)
(* queues behind the writers before it and, at the head, waits for the     *)
(* readers that hold the mutex to leave; a reader that arrives while a     *)
(* writer is queued waits until that writer unlocks, which admits it.      *)
(***************************************************************************)
MaxThreads == 2
Threads == 1..MaxThreads
Mutexes == {0} \cup Objs

WLock(m) == <<"Lock", m>>
WUnlock(m) == <<"Unlock", m>>
RLock(m) == <<"RLock", m>>
RUnlock(m) == <<"RUnlock", m>>
(* Under the locks held: lsof, kill and the sleeps of the reclamation, or  *)
(* the dials of the port and network probes, when the call gets to them.   *)
External == <<"External", 0>>

(* The orders in which a range over tm.tunnels visits Tunnels. *)
Visits ==
    {v \in UNION {[1..n -> Objs] : n \in 1..MaxObjs} :
        \A i, j \in DOMAIN v : v[i] = v[j] => i = j}

RECURSIVE Each(_, _, _)
Each(v, lock, unlock) ==
    IF v = <<>> THEN <<>>
    ELSE <<<<lock, Head(v)>>, <<unlock, Head(v)>>>> \o Each(Tail(v), lock, unlock)

ProgAddTunnel == <<WLock(0), External, WUnlock(0)>>
ProgToggleOn == <<WLock(0), WUnlock(0)>>
ProgStop(o) == <<WLock(0), WLock(o), WUnlock(o), WUnlock(0)>>
ProgStart(o) == <<WLock(o), WUnlock(o)>>
ProgConnect(o) == <<WLock(o), External, WUnlock(o), WLock(o), WUnlock(o)>>
ProgHealthCheck(o) == <<WLock(o), External, WUnlock(o)>>
ProgGetStatus(v) == <<RLock(0)>> \o Each(v, "RLock", "RUnlock") \o <<RUnlock(0)>>
ProgRestoredReversed(v) ==
    <<WLock(v[1]), RLock(0), RUnlock(0), WUnlock(v[1])>>

ProgRestored(v) == <<RLock(0)>> \o Each(v, "Lock", "Unlock") \o <<RUnlock(0)>>

Programs ==
    {ProgAddTunnel, ProgToggleOn}
      \cup {ProgStop(o) : o \in Objs} \cup {ProgStart(o) : o \in Objs}
      \cup {ProgConnect(o) : o \in Objs} \cup {ProgHealthCheck(o) : o \in Objs}
      \cup {ProgGetStatus(v) : v \in Visits} \cup {ProgRestored(v) : v \in Visits}

IdleThread == [prog |-> <<>>, pc |-> 1, waiting |-> FALSE, external |-> FALSE]
FreeMutex == [w |-> 0, r |-> {}, wq |-> <<>>, rq |-> {}]

LkInit == [th |-> [t \in Threads |-> IdleThread], mu |-> [m \in Mutexes |-> FreeMutex]]

Running(t) == lk.th[t].prog # <<>>
Op(t) == lk.th[t].prog[lk.th[t].pc]

(* The thread after the operation at its pc; the call returns after the last one. *)
Advance(t) ==
    IF lk.th[t].pc = Len(lk.th[t].prog) THEN IdleThread
    ELSE [lk.th[t] EXCEPT !.pc = @ + 1, !.waiting = FALSE, !.external = FALSE]

(* The mutexes a thread holds, for writing or for reading. *)
Holds(t) == {m \in Mutexes : lk.mu[m].w = t \/ t \in lk.mu[m].r}

LkCall(t, prog) ==
    /\ ~Running(t)
    /\ lk' = [lk EXCEPT !.th[t] = [IdleThread EXCEPT !.prog = prog]]
    /\ UNCHANGED <<manager, rc, sse, nm, hm>>

(* Lock() and RLock() are called. *)
LkRequest(t) ==
    /\ Running(t) /\ ~lk.th[t].waiting
    /\ Op(t)[1] \in {"Lock", "RLock"}
    /\ LET m == Op(t)[2]
       IN IF Op(t)[1] = "Lock"
          THEN lk' = [lk EXCEPT !.mu[m].wq = Append(@, t), !.th[t].waiting = TRUE]
          ELSE IF lk.mu[m].wq = <<>>
          THEN lk' = [lk EXCEPT !.mu[m].r = @ \cup {t}, !.th[t] = Advance(t)]
          ELSE lk' = [lk EXCEPT !.mu[m].rq = @ \cup {t}, !.th[t].waiting = TRUE]
    /\ UNCHANGED <<manager, rc, sse, nm, hm>>

(* Lock() and RLock() return. *)
LkGrant(t) ==
    /\ Running(t) /\ lk.th[t].waiting
    /\ LET m == Op(t)[2]
       IN IF Op(t)[1] = "Lock"
          THEN /\ Head(lk.mu[m].wq) = t /\ lk.mu[m].r = {} /\ lk.mu[m].w = 0
               /\ lk' = [lk EXCEPT !.mu[m].w = t, !.th[t] = Advance(t)]
          ELSE /\ t \in lk.mu[m].r
               /\ lk' = [lk EXCEPT !.th[t] = Advance(t)]
    /\ UNCHANGED <<manager, rc, sse, nm, hm>>

(* Unlock() and RUnlock(). *)
LkRelease(t) ==
    /\ Running(t)
    /\ Op(t)[1] \in {"Unlock", "RUnlock"}
    /\ LET m == Op(t)[2]
       IN IF Op(t)[1] = "Unlock"
          THEN lk' = [lk EXCEPT !.mu[m] = [w |-> 0, r |-> lk.mu[m].rq,
                                            wq |-> Tail(lk.mu[m].wq), rq |-> {}],
                                !.th[t] = Advance(t)]
          ELSE lk' = [lk EXCEPT !.mu[m].r = @ \ {t}, !.th[t] = Advance(t)]
    /\ UNCHANGED <<manager, rc, sse, nm, hm>>

(* The call gets to its reclamation or its probes: needed, it starts them. *)
LkExternal(t, needed) ==
    /\ Running(t) /\ ~lk.th[t].external
    /\ Op(t)[1] = "External"
    /\ lk' = [lk EXCEPT !.th[t] = IF needed THEN [@ EXCEPT !.external = TRUE]
                                   ELSE Advance(t)]
    /\ UNCHANGED <<manager, rc, sse, nm, hm>>

(* The utilities have exited, the sleeps and the dials are over. *)
LkExternalDone(t) ==
    /\ Running(t) /\ lk.th[t].external
    /\ lk' = [lk EXCEPT !.th[t] = Advance(t)]
    /\ UNCHANGED <<manager, rc, sse, nm, hm>>

LkStep(t) ==
    \/ LkRequest(t)
    \/ LkGrant(t)
    \/ LkRelease(t)
    \/ \E needed \in BOOLEAN : LkExternal(t, needed)
    \/ LkExternalDone(t)

NextLock ==
    \/ \E t \in Threads, prog \in Programs : LkCall(t, prog)
    \/ \E t \in Threads : LkRequest(t)
    \/ \E t \in Threads : LkGrant(t)
    \/ \E t \in Threads : LkRelease(t)
    \/ \E t \in Threads, needed \in BOOLEAN : LkExternal(t, needed)
    \/ \E t \in Threads : LkExternalDone(t)

(***************************************************************************)
(* The healthTicker field of one Tunnel and its health-check goroutines.   *)
(* Start makes a context and calls startHealthMonitoring under t.mutex;    *)
(* the maintain goroutine it launches calls startHealthMonitoring again,   *)
(* without the mutex.  Every call makes a ticker, stores it in the field    *)
(* and launches a goroutine, which reads the field when it registers its   *)
(* deferred Stop and every time it enters its select.  A ticker and the     *)
(* goroutine made with it have the same number.                            *)
(***************************************************************************)
MaxContexts == 1
Contexts == 1..MaxContexts
Tickers == 1..(2 * MaxContexts)

NoChecker == [pc |-> "none", ctx |-> 0, deferred |-> 0, chan |-> 0]

HmInit ==
    [healthTicker |-> 0, made |-> 0, stopped |-> {}, ctx |-> 0, cancelled |-> {},
     launched |-> {}, g |-> [i \in Tickers |-> NoChecker]]

(* A nil pointer was dereferenced: the runtime has ended the program. *)
Crashed == \E i \in Tickers : hm.g[i].pc = "fault"

(* startHealthMonitoring(ctx) on the record h. *)
startHealthMonitoring(h, c) ==
    [h EXCEPT !.made = @ + 1,
              !.healthTicker = h.made + 1,
              !.g[h.made + 1] = [pc |-> "defer", ctx |-> c, deferred |-> 0, chan |-> 0]]

(* Tunnel.Start past its status check. *)
HmStart ==
    /\ ~Crashed /\ hm.ctx < MaxContexts
    /\ LET c == hm.ctx + 1
           h == [hm EXCEPT !.cancelled = IF hm.ctx = 0 THEN @ ELSE @ \cup {hm.ctx},
                           !.ctx = c,
                           !.launched = @ \cup {c}]
       IN hm' = startHealthMonitoring(h, c)
    /\ UNCHANGED <<manager, rc, sse, nm, lk>>

(* The first statement of maintain(ctx). *)
HmMaintain(c) ==
    /\ ~Crashed /\ c \in hm.launched
    /\ hm' = startHealthMonitoring([hm EXCEPT !.launched = @ \ {c}], c)
    /\ UNCHANGED <<manager, rc, sse, nm, lk>>

(* Tunnel.Stop: the context is cancelled, the ticker stopped and cleared. *)
HmStop ==
    /\ ~Crashed /\ hm.ctx # 0
    /\ hm' = [hm EXCEPT !.cancelled = @ \cup {hm.ctx},
                        !.stopped = @ \cup ({hm.healthTicker} \ {0}),
                        !.healthTicker = 0]
    /\ UNCHANGED <<manager, rc, sse, nm, lk>>

(* defer t.healthTicker.Stop(): the receiver is read from the field. *)
HmDefer(i) ==
    /\ ~Crashed /\ hm.g[i].pc = "defer"
    /\ hm' = [hm EXCEPT !.g[i].pc = "enter", !.g[i].deferred = hm.healthTicker]
    /\ UNCHANGED <<manager, rc, sse, nm, lk>>

(* The select is entered: its operands ctx.Done() and t.healthTicker.C are *)
(* evaluated, the second through the field, which faults when it is nil.   *)
HmSelect(i) ==
    /\ ~Crashed /\ hm.g[i].pc = "enter"
    /\ hm' = IF hm.healthTicker = 0
             THEN [hm EXCEPT !.g[i].pc = "fault"]
             ELSE [hm EXCEPT !.g[i].pc = "wait", !.g[i].chan = hm.healthTicker]
    /\ UNCHANGED <<manager, rc, sse, nm, lk>>

(* The ticker whose channel the select waits on ticks: performHealthCheck  *)
(* runs and the loop goes round.                                           *)
HmTick(i) ==
    /\ ~Crashed /\ hm.g[i].pc = "wait"
    /\ hm.g[i].chan \notin hm.stopped
    /\ hm' = [hm EXCEPT !.g[i].pc = "enter", !.g[i].chan = 0]
    /\ UNCHANGED <<manager, rc, sse, nm, lk>>

(* ctx.Done(): the goroutine returns and its deferred Stop runs, on the    *)
(* receiver it read, and faults when that was nil.                         *)
HmDone(i) ==
    /\ ~Crashed /\ hm.g[i].pc = "wait"
    /\ hm.g[i].ctx \in hm.cancelled
    /\ hm' = IF hm.g[i].deferred = 0
             THEN [hm EXCEPT !.g[i].pc = "fault"]
             ELSE [hm EXCEPT !.g[i] = [NoChecker EXCEPT !.pc = "done"],
                             !.stopped = @ \cup {hm.g[i].deferred}]
    /\ UNCHANGED <<manager, rc, sse, nm, lk>>

NextHealth ==
    \/ HmStart
    \/ \E c \in Contexts : HmMaintain(c)
    \/ HmStop
    \/ \E i \in Tickers : HmDefer(i)
    \/ \E i \in Tickers : HmSelect(i)
    \/ \E i \in Tickers : HmTick(i)
    \/ \E i \in Tickers : HmDone(i)


(***************************************************************************)
(* The system.                                                             *)
(***************************************************************************)
Config(n, c, p, e) ==
    [name |-> n, command |-> c, localPort |-> p, enabled |-> e, autoExtracted |-> FALSE]

(* The configs AddTunnel is called with, all of one name: a forward whose port is extracted,  *)
(* a command without a forward and without a port, an empty command and a  *)
(* command that does not start with ssh, both with an explicit port.       *)
AddInputs ==
    {Config("db", c[1], c[2], e) :
        e \in BOOLEAN,
        c \in {<<CmdDb, "">>, <<CmdNoForward, "">>, <<CmdEmpty, "5432">>,
               <<CmdNotSsh, "5432">>}}

(* NewTunnelManager: loadConfig on a missing file. *)
InitTunnels ==
    /\ tunnels = [n \in Names |-> 0]
    /\ store = {}
    /\ config = [o \in Objs |-> BlankConfig]
    /\ status = [o \in Objs |-> "disconnected"]
    /\ lastError = [o \in Objs |-> ""]
    /\ cmd = [o \in Objs |-> NoCmd]
    /\ cancel = [o \in Objs |-> 0]
    /\ starts = [o \in Objs |-> 0]
    /\ task = [k \in Tasks |-> FreeTask]
    /\ ext = [p \in Ports |-> "absent"]
    /\ ret = NoRet
    /\ connectedAt = [o \in Objs |-> 0]
    /\ now = 1
    /\ lastSnapshots = <<>>
    /\ published = 0

Init == InitTunnels /\ rc = RcInit /\ sse = SseInit /\ nm = NmInit
    /\ lk = LkInit /\ hm = HmInit

(* At most one Tunnel is in use: in the collection, awaited by a launched  *)
(* Start or held by a goroutine.                                           *)
OneTunnel == Cardinality(Objs \ Unused) <= 1

(* The manager under every input and every answer of its environment.  A   *)
(* call that would leave a second Tunnel in use is not made, and a         *)
(* launched Start runs when no maintain of an earlier one is left.         *)
Next ==
    \/ \E c \in AddInputs, lsof \in BOOLEAN, sig \in BOOLEAN :
            AddTunnel(c, lsof, sig) /\ OneTunnel'
    \/ \E n \in Names : ToggleTunnel(n)
    \/ \E n \in Names : DeleteTunnel(n)
    \/ \E o \in Objs : FreeTasks = Tasks /\ Start(o)
    \/ \E k \in Tasks : MaintainTop(k)
    \/ \E k \in Tasks, net \in BOOLEAN, host \in BOOLEAN : MaintainProbe(k, net, host)
    \/ \E k \in Tasks : MaintainNetWait(k)
    \/ \E k \in Tasks : MaintainHostWait(k)
    \/ \E k \in Tasks : MaintainRetry(k)
    \/ \E k \in Tasks, lsof \in BOOLEAN, sig \in BOOLEAN : ConnectPort(k, lsof, sig)
    \/ \E k \in Tasks : ConnectCmd(k)
    \/ \E k \in Tasks, ok \in BOOLEAN : ConnectStart(k, ok)
    \/ \E k \in Tasks, last \in BOOLEAN : ConnectPoll(k, last)
    \/ \E k \in Tasks : ConnectUp(k)
    \/ \E k \in Tasks : ConnectWait(k)
    \/ \E k \in Tasks : ConnectFail(k)
    \/ \E k \in Tasks, net \in BOOLEAN : HealthCheck(k, net)
    \/ \E k \in Tasks : ProcBind(k)
    \/ \E k \in Tasks, clean \in BOOLEAN : ProcExit(k, clean)
    \/ \E p \in Ports : ExtBind(p)
    \/ \E p \in Ports : ExtExit(p)

Spec == Init /\ [][Next]_vars

(* One tunnel whose command is well formed, toggled and deleted while its  *)
(* goroutines run; the network is up, the host answers, ssh starts and no  *)
(* unrelated process takes the port.  A launched Start runs at any time.   *)
RaceInputs == {Config("db", CmdDb, "", TRUE)}

NextRace ==
    \/ \E c \in RaceInputs : AddTunnel(c, TRUE, TRUE) /\ OneTunnel'
    \/ \E c \in RaceInputs : ToggleTunnel(c.name)
    \/ \E c \in RaceInputs : DeleteTunnel(c.name)
    \/ \E o \in Objs : Start(o)
    \/ \E k \in Tasks : MaintainTop(k)
    \/ \E k \in Tasks : MaintainProbe(k, TRUE, TRUE)
    \/ \E k \in Tasks : MaintainRetry(k)
    \/ \E k \in Tasks : ConnectPort(k, TRUE, TRUE)
    \/ \E k \in Tasks : ConnectCmd(k)
    \/ \E k \in Tasks : ConnectStart(k, TRUE)
    \/ \E k \in Tasks, last \in BOOLEAN : ConnectPoll(k, last)
    \/ \E k \in Tasks : ConnectUp(k)
    \/ \E k \in Tasks : ConnectWait(k)
    \/ \E k \in Tasks : ConnectFail(k)
    \/ \E k \in Tasks : ProcBind(k)
    \/ \E k \in Tasks, clean \in BOOLEAN : ProcExit(k, clean)

SpecRace == Init /\ [][NextRace]_vars

(* One tunnel that is added and toggled while its loop probes the network,  *)
(* beside the monitor and the callbacks it launches.                        *)
NextNet ==
    \/ \E c \in RaceInputs : AddTunnel(c, TRUE, TRUE) /\ OneTunnel'
    \/ \E c \in RaceInputs : ToggleTunnel(c.name)
    \/ \E o \in Objs : FreeTasks = Tasks /\ Start(o)
    \/ \E k \in Tasks : MaintainTop(k)
    \/ \E k \in Tasks, net \in BOOLEAN : MaintainProbe(k, net, TRUE)
    \/ \E k \in Tasks : MaintainNetWait(k)
    \/ \E g \in Loops, cur \in BOOLEAN : MonitorFirst(g, cur)
    \/ \E g \in Loops, cur \in BOOLEAN : MonitorPoll(g, cur)
    \/ \E isConnected \in BOOLEAN : Callback(isConnected)

SpecNet == Init /\ [][NextNet]_vars

(* One tunnel, added and toggled at will, under fair scheduling: a launched *)
(* Start runs, and a goroutine that can take a step takes it.  The network  *)
(* is up, the host answers and ssh starts.                                  *)
GoStep(k) ==
    \/ MaintainTop(k)
    \/ MaintainProbe(k, TRUE, TRUE)
    \/ MaintainRetry(k)
    \/ ConnectPort(k, TRUE, TRUE)
    \/ ConnectCmd(k)
    \/ ConnectStart(k, TRUE)
    \/ \E last \in BOOLEAN : ConnectPoll(k, last)
    \/ ConnectUp(k)
    \/ ConnectWait(k)
    \/ ConnectFail(k)

NextLive ==
    \/ \E c \in RaceInputs : AddTunnel(c, TRUE, TRUE) /\ OneTunnel'
    \/ \E c \in RaceInputs : ToggleTunnel(c.name)
    \/ \E o \in Objs : Start(o)
    \/ \E k \in Tasks : GoStep(k)
    \/ \E k \in Tasks : ProcBind(k)
    \/ \E k \in Tasks, clean \in BOOLEAN : ProcExit(k, clean)

SpecLive ==
    /\ Init /\ [][NextLive]_vars
    /\ WF_vars(\E o \in Objs : Start(o))
    /\ \A k \in Tasks : WF_vars(GoStep(k))

(* Calls of the manager, of the Tunnels and of their goroutines that take  *)
(* tm.mutex and the Tunnels' mutexes, scheduled fairly: a call that can    *)
(* take a step takes it, and what it waits for outside the program ends.   *)
SpecLock == Init /\ [][NextLock]_vars /\ \A t \in Threads : WF_vars(LkStep(t))

(* One Tunnel started and stopped while its health checkers run. *)
SpecHealth == Init /\ [][NextHealth]_vars

(* killProcessesOnPort called again and again while processes come and go. *)
SpecReclaim == Init /\ [][NextReclaim]_vars

(* Subscribers, two publishers and the handlers that receive. *)
SpecSSE == Init /\ [][NextSSE]_vars

(* A NetworkMonitor from NewNetworkMonitor on. *)
InitMonitor == InitTunnels /\ rc = RcInit /\ sse = SseInit /\ nm = NmFresh
    /\ lk = LkInit /\ hm = HmInit

SpecMonitor == InitMonitor /\ [][NextMonitor]_vars

(***************************************************************************)
(* A manager constructed from a store.  The files are those saveConfig     *)
(* writes: at most one config of a name.  A missing file and the file of   *)
(* an empty array both hold no config.                                     *)
(***************************************************************************)
StoredConfigs ==
    {[name |-> n, command |-> CmdDb, localPort |-> "5432", enabled |-> e,
      autoExtracted |-> a] : n \in Names, e \in BOOLEAN, a \in BOOLEAN}

Files ==
    {f \in SUBSET StoredConfigs :
        Cardinality(f) <= MaxObjs /\ \A c, d \in f : c.name = d.name => c = d}

AutoStartAlways(c) == 1

(* loadConfig: `go tunnel.Start()` for an enabled config. *)
AutoStart(c) == IF c.enabled THEN 1 ELSE 0

(* The place of a name in the array of the file. *)
Rank(n) == IF n = "db" THEN 1 ELSE 2

(* loadConfig: the k-th config of the file makes the k-th Tunnel. *)
Loaded(file, n) ==
    IF \E c \in file : c.name = n
    THEN Cardinality({c \in file : Rank(c.name) <= Rank(n)})
    ELSE 0

ConfigOf(file, o) == CHOOSE c \in file : Loaded(file, c.name) = o

(* NewTunnelManager: loadConfig on a file. *)
InitLoad ==
    \E file \in Files :
        LET made == {Loaded(file, n) : n \in Names} \ {0}
        IN /\ tunnels = [n \in Names |-> Loaded(file, n)]
           /\ store = file
           /\ config = [o \in Objs |-> IF o \in made THEN ConfigOf(file, o) ELSE BlankConfig]
           /\ status = [o \in Objs |-> "disconnected"]
           /\ lastError = [o \in Objs |-> ""]
           /\ cmd = [o \in Objs |-> NoCmd]
           /\ cancel = [o \in Objs |-> 0]
           /\ starts = [o \in Objs |-> IF o \in made THEN AutoStart(ConfigOf(file, o)) ELSE 0]
           /\ task = [k \in Tasks |-> FreeTask]
           /\ ext = [p \in Ports |-> "absent"]
           /\ ret = [op |-> "load", name |-> "", err |-> "", reclaimed |-> FALSE]
           /\ connectedAt = [o \in Objs |-> 0]
           /\ now = 1
           /\ lastSnapshots = <<>>
           /\ published = 0
           /\ rc = RcInit
           /\ sse = SseInit
           /\ nm = NmInit
           /\ lk = LkInit
           /\ hm = HmInit

(* The launched Starts run and the loops probe the network and the host. *)
NextLoad ==
    \/ \E o \in Objs : Start(o)
    \/ \E k \in Tasks : MaintainTop(k)
    \/ \E k \in Tasks, net \in BOOLEAN, host \in BOOLEAN : MaintainProbe(k, net, host)
    \/ \E k \in Tasks : MaintainNetWait(k)
    \/ \E k \in Tasks : MaintainHostWait(k)

SpecLoad == InitLoad /\ [][NextLoad]_vars

(* A manager loaded with the tunnel db, to which a tunnel web that forwards *)
(* the same local port is added; the network is up, the host answers and    *)
(* ssh starts.                                                              *)
SharedInputs == {Config("web", CmdDb, "", TRUE)}

InitShared == InitLoad /\ store = {[Config("db", CmdDb, "5432", TRUE) EXCEPT !.autoExtracted = TRUE]}

NextShared ==
    \/ \E c \in SharedInputs : AddTunnel(c, TRUE, TRUE)
    \/ \E o \in Objs : Start(o)
    \/ \E k \in Tasks : MaintainTop(k)
    \/ \E k \in Tasks : MaintainProbe(k, TRUE, TRUE)
    \/ \E k \in Tasks : MaintainRetry(k)
    \/ \E k \in Tasks : ConnectPort(k, TRUE, TRUE)
    \/ \E k \in Tasks : ConnectCmd(k)
    \/ \E k \in Tasks : ConnectStart(k, TRUE)
    \/ \E k \in Tasks, last \in BOOLEAN : ConnectPoll(k, last)
    \/ \E k \in Tasks : ConnectUp(k)
    \/ \E k \in Tasks : ConnectWait(k)
    \/ \E k \in Tasks : ConnectFail(k)
    \/ \E k \in Tasks : ProcBind(k)

SpecShared == InitShared /\ [][NextShared]_vars

(***************************************************************************)
(* The status list and the status broadcaster.                             *)
(***************************************************************************)
MaxClock == 7

StabilityWindow == 5

(* GetStatus: cmd.Process.Pid when the exec.Cmd has a process, else 0.  The *)
(* pid of a started process is the number of its goroutine; the exited     *)
(* process of a goroutine that has returned keeps one pid of its own.       *)
Pid(o) ==
    IF cmd[o] = NoCmd \/ cmd[o] = UnstartedCmd THEN 0
    ELSE IF cmd[o] = DeadCmd THEN MaxTasks + 1
    ELSE IF task[cmd[o]].proc \in {"none", "created"} THEN 0
    ELSE cmd[o]

UptimeNoWindow(o) ==
    IF status[o] = "connected" /\ connectedAt[o] # 0
    THEN <<now - connectedAt[o]>>
    ELSE <<>>

(* GetStatus: the uptime string, <<>> for the empty one and <<d>> for the   *)
(* one of d seconds.                                                       *)
Uptime(o) ==
    IF status[o] = "connected" /\ connectedAt[o] # 0
    THEN LET connectedDuration == now - connectedAt[o]
         IN IF connectedDuration >= StabilityWindow THEN <<connectedDuration>> ELSE <<>>
    ELSE <<>>

(* GetStatus: the TunnelStatus of one Tunnel (ConnectedAt and              *)
(* LastHealthCheck, which nothing here reads, are left out).               *)
TunnelStatus(o) ==
    [config |-> config[o], status |-> status[o], lastError |-> lastError[o],
     uptime |-> Uptime(o), pid |-> Pid(o)]

(* The orders in which a `range tm.tunnels` can visit the map. *)
Orders ==
    LET present == {n \in Names : tunnels[n] # 0}
    IN {s \in [1..Cardinality(present) -> present] :
            \A i, j \in DOMAIN s : s[i] = s[j] => i = j}

GetStatus(order) == [i \in DOMAIN order |-> TunnelStatus(tunnels[order[i]])]

(* startStatusBroadcaster: the StatusSnapshot of a TunnelStatus. *)
StatusSnapshot(s) ==
    [name |-> s.config.name, status |-> s.status, error |-> s.lastError, pid |-> s.pid]

(* startStatusBroadcaster: one tick of the ticker. *)
StatusTick(order) ==
    LET st == GetStatus(order)
        currentSnapshots == [i \in DOMAIN st |-> StatusSnapshot(st[i])]
        hasChanged ==
            \/ Len(currentSnapshots) # Len(lastSnapshots)
            \/ \E i \in DOMAIN currentSnapshots : currentSnapshots[i] # lastSnapshots[i]
    IN /\ order \in Orders
       /\ published' = IF hasChanged THEN 1 ELSE 0
       /\ lastSnapshots' = IF hasChanged THEN currentSnapshots ELSE lastSnapshots
       /\ ret' = [op |-> "tick", name |-> "", err |-> "", reclaimed |-> FALSE]
       /\ UNCHANGED <<tunnels, store, config, status, lastError, cmd, cancel, starts, task,
                      ext, connectedAt, now, rc, sse, nm, lk, hm>>

(* A second passes. *)
ClockTick ==
    /\ now < MaxClock
    /\ now' = now + 1
    /\ ret' = NoRet
    /\ UNCHANGED <<tunnels, store, config, status, lastError, cmd, cancel, starts, task,
                   ext, connectedAt, lastSnapshots, published, rc, sse, nm, lk, hm>>

(* A manager loaded from a file of configs typed by hand, whose loops probe *)
(* the network while the broadcaster ticks; the host answers.              *)
InitBroadcast == InitLoad /\ \A c \in store : ~c.autoExtracted

NextBroadcast ==
    \/ \E o \in Objs : Start(o)
    \/ \E k \in Tasks : MaintainTop(k)
    \/ \E k \in Tasks, net \in BOOLEAN : MaintainProbe(k, net, TRUE)
    \/ \E k \in Tasks : MaintainNetWait(k)
    \/ \E order \in Orders : StatusTick(order)

SpecBroadcast == InitBroadcast /\ [][NextBroadcast]_vars

(* One tunnel that connects, drops and is toggled while the clock runs. *)
NextUptime ==
    \/ \E c \in RaceInputs : AddTunnel(c, TRUE, TRUE) /\ OneTunnel'
    \/ \E c \in RaceInputs : ToggleTunnel(c.name)
    \/ \E o \in Objs : FreeTasks = Tasks /\ Start(o)
    \/ \E k \in Tasks : MaintainTop(k)
    \/ \E k \in Tasks : MaintainProbe(k, TRUE, TRUE)
    \/ \E k \in Tasks : MaintainRetry(k)
    \/ \E k \in Tasks : ConnectPort(k, TRUE, TRUE)
    \/ \E k \in Tasks : ConnectCmd(k)
    \/ \E k \in Tasks : ConnectStart(k, TRUE)
    \/ \E k \in Tasks, last \in BOOLEAN : ConnectPoll(k, last)
    \/ \E k \in Tasks : ConnectUp(k)
    \/ \E k \in Tasks : ConnectWait(k)
    \/ \E k \in Tasks : ConnectFail(k)
    \/ \E k \in Tasks : ProcBind(k)
    \/ \E k \in Tasks, clean \in BOOLEAN : ProcExit(k, clean)
    \/ ClockTick

SpecUptime == Init /\ [][NextUptime]_vars

(***************************************************************************)
(* The goroutines and processes of a Tunnel.                               *)
(***************************************************************************)
Supervisors(o) == {k \in Tasks : task[k].obj = o}
Processes(o) == {k \in Tasks : task[k].obj = o /\ task[k].proc \in LiveProc}

(* C1: a Tunnel has at most one supervision goroutine at any time: Start   *)
(* begins a new maintain only when the previous one has returned.          *)
C1_OneSupervisor == \A o \in Objs : Cardinality(Supervisors(o)) <= 1

(* C2: a Tunnel has at most one live ssh process at any time, also across  *)
(* a Stop followed by a Start.                                             *)
C2_OneProcess == \A o \in Objs : Cardinality(Processes(o)) <= 1

(* C3: a tunnel that was toggled off and not on again, once the launched   *)
(* Starts have run and its goroutines have returned, has status            *)
(* disconnected and no live process: nothing is left to change either.     *)
C3_StoppedStaysDisconnected ==
    \A n \in Names :
        LET o == tunnels[n]
        IN (o # 0 /\ ~config[o].enabled /\ starts[o] = 0 /\ Supervisors(o) = {})
           => (status[o] = "disconnected" /\ Processes(o) = {})

(* C4: when the Start launched by a toggle to enabled has run, the status  *)
(* of the tunnel is connecting and its lastError is empty.                 *)
C4_StartClears ==
    [][\A n \in Names :
          LET o == tunnels[n]
          IN (o # 0 /\ tunnels'[n] = o /\ starts'[o] = starts[o] - 1)
             => (status'[o] = "connecting" /\ lastError'[o] = "")]_vars

(* C5: once DeleteTunnel has removed a tunnel, the store does not hold its *)
(* name and no goroutine supervises the removed Tunnel unless its context  *)
(* is cancelled, whenever the Start launched by AddTunnel runs.            *)
C5_DeletedIsStopped ==
    /\ \A c \in store : tunnels[c.name] # 0
    /\ \A k \in Tasks :
          (task[k].obj # 0 /\ ~task[k].cancelled)
          => \E n \in Names : tunnels[n] = task[k].obj

(* C6: AddTunnel with a name that is in the collection returns an error    *)
(* and leaves the collection, the Tunnel of that name and the store as     *)
(* they are.                                                               *)
C6_DuplicateRejected ==
    [][(ret'.op = "add" /\ tunnels[ret'.name] # 0)
       => /\ ret'.err # ""
          /\ tunnels' = tunnels /\ store' = store
          /\ config'[tunnels[ret'.name]] = config[tunnels[ret'.name]]]_vars

(* C7: an AddTunnel that returns an error (no port derivable, the port not *)
(* reclaimed) leaves the collection and the store unchanged and starts no  *)
(* goroutine.                                                              *)
C7_FailedAddChangesNothing ==
    [][(ret'.op = "add" /\ ret'.err # "")
       => /\ tunnels' = tunnels /\ store' = store /\ config' = config
          /\ starts' = starts
          /\ \A k \in Tasks : task'[k].obj = task[k].obj]_vars

(* An AddTunnel has failed on the port of a tunnel that is in the collection. *)
C7_FailedOnBusyPort ==
    /\ ret.op = "add" /\ ret.err \in {RetFreePort, RetStillBusy}
    /\ tunnels[ret.name] # 0 /\ store # {}

(* C8: when AddTunnel has returned success, no unrelated process is bound  *)
(* to the local port of the tunnel it added.                               *)
C8_NoSuccessOnBusyPort ==
    (ret.op = "add" /\ ret.err = "")
    => LET port == config[tunnels[ret.name]].localPort
       IN port \in Ports => ext[port] # "running"

(* An AddTunnel has succeeded after it killed the unrelated owner of the port. *)
C8_AddedAfterReclaim == ret.op = "add" /\ ret.err = "" /\ ret.reclaimed

(* C9: the command of a tunnel that AddTunnel accepted is not empty and    *)
(* starts with ssh, with an explicit local port too.                       *)
C9_MalformedRejected ==
    (ret.op = "add" /\ ret.err = "")
    => LET command == config[tunnels[ret.name]].command
       IN Len(command) > 0 /\ command[1] = "ssh"

(* C10: ToggleTunnel and DeleteTunnel with a name that is not in the       *)
(* collection return "tunnel not found" and change nothing.                *)
C10_UnknownNameNotFound ==
    [][(ret'.op \in {"toggle", "delete"} /\ tunnels[ret'.name] = 0)
       => /\ ret'.err = RetNotFound
          /\ UNCHANGED <<tunnels, store, config, status, lastError, cmd, cancel,
                         starts, task, ext>>]_vars

(* DeleteTunnel has returned not found while a goroutine of a removed      *)
(* Tunnel runs and an unrelated process holds the port.                    *)
C10_NotFoundWhileBusy ==
    /\ ret.op = "delete" /\ ret.err = RetNotFound
    /\ \E k \in Tasks : task[k].obj # 0
    /\ \E p \in Ports : ext[p] = "running"

(* C11: when the Starts launched for a tunnel of the collection have all   *)
(* run, the tunnel has a supervision goroutine whose context is not        *)
(* cancelled exactly if its enabled flag is set.                           *)
C11_SupervisedIffEnabled ==
    \A n \in Names :
        LET o == tunnels[n]
        IN (o # 0 /\ starts[o] = 0)
           => ((\E k \in Supervisors(o) : ~task[k].cancelled) <=> config[o].enabled)

(* C12: when AddTunnel, ToggleTunnel or DeleteTunnel has returned success, *)
(* the store holds exactly the configs of the Tunnels of the collection,   *)
(* with the enabled flags they now have.                                   *)
C12_StoreIsCollection ==
    [][(ret'.op \in {"add", "toggle", "delete"} /\ ret'.err = "")
       => /\ \A n \in Names : tunnels'[n] # 0 => config'[tunnels'[n]] \in store'
          /\ \A c \in store' : tunnels'[c.name] # 0 /\ config'[tunnels'[c.name]] = c]_vars

(* ToggleTunnel has disabled a tunnel whose port was extracted, and the    *)
(* store holds its config with the flag cleared.                           *)
C12_ToggledOffSaved ==
    /\ ret.op = "toggle" /\ ret.err = ""
    /\ \E c \in store : ~c.enabled /\ c.autoExtracted /\ c.name = ret.name

(* C13: a manager constructed from a store has one Tunnel per stored       *)
(* config, with that config; each is disconnected and without a cmd when   *)
(* construction ends; a Start is launched, and a supervision goroutine     *)
(* then runs, exactly for the enabled ones; no config gives the empty      *)
(* collection; saving what was loaded gives the store back.                *)
C13_LoadedFromStore ==
    /\ \A c \in store : tunnels[c.name] # 0 /\ config[tunnels[c.name]] = c
    /\ \A n \in Names : tunnels[n] # 0 => config[tunnels[n]] \in store
    /\ \A n, m \in Names : (tunnels[n] # 0 /\ tunnels[n] = tunnels[m]) => n = m
    /\ saveConfig(tunnels, config) = store
    /\ \A n \in Names :
          LET o == tunnels[n]
          IN o # 0 => starts[o] + Cardinality(Supervisors(o))
                         = (IF config[o].enabled THEN 1 ELSE 0)
    /\ \A k \in Tasks : task[k].obj # 0 => \E n \in Names : tunnels[n] = task[k].obj
    /\ ret.op = "load"
         => \A o \in Objs : status[o] = "disconnected" /\ cmd[o] = NoCmd
                             /\ Supervisors(o) = {}

(* Two stored configs, one enabled and one not, have been loaded and the   *)
(* Start of the enabled one has run.                                       *)
C13_LoadedTwo ==
    /\ \A n \in Names : tunnels[n] # 0
    /\ \E n, m \in Names :
          /\ ~config[tunnels[n]].enabled /\ Supervisors(tunnels[n]) = {}
          /\ config[tunnels[m]].enabled /\ Supervisors(tunnels[m]) # {}

(* C14: when a loop that saw the network down sees it up and goes on to    *)
(* connect, the delay in force for that attempt is the short one.          *)
C14_ShortDelayAfterRecovery ==
    [][\A k \in Tasks :
          (task[k].pc = "probe" /\ task[k].wasNetworkDown /\ task'[k].pc = "c_port")
          => task'[k].retryDelay = ShortDelay]_vars

(* The errors connect() leaves when the tunnel was not established. *)
ConnectFailures == {ErrEstablish, ErrStartSsh, ErrFreePort, ErrParse, ErrNotSsh}

(* C15: in a run of attempts that fail to establish, with the network up   *)
(* and the host reachable, the wait grows: the delay doubled after a       *)
(* failed attempt is still in force when the next attempt begins, so it is *)
(* the wait after that attempt.                                            *)
C15_BackoffGrows ==
    [][\A k \in Tasks :
          LET o == task[k].obj
          IN (/\ task[k].pc = "probe" /\ ~task[k].wasNetworkDown
              /\ task'[k].pc = "c_port"
              /\ status[o] = "error" /\ lastError[o] \in ConnectFailures)
             => task'[k].retryDelay = task[k].retryDelay]_vars

(* C16: when connect() has returned after an established connection, the   *)
(* wait that follows is the moderate delay.                                *)
C16_ModerateDelayAfterDrop ==
    \A k \in Tasks :
        (task[k].obj # 0 /\ task[k].pc = "retry" /\ task[k].success)
        => task[k].retryDelay = ModerateDelay

(* C17: an iteration that finds the host unreachable sets status error     *)
(* with "SSH host unreachable" and waits the delay in force; when the wait *)
(* ends the delay is doubled, up to the cap; the delay of a loop is never  *)
(* below the short delay and never above the cap.                          *)
C17_HostBackoff ==
    [][\A k \in Tasks :
          LET o == task[k].obj
          IN /\ task'[k].obj # 0
                => (task'[k].retryDelay >= ShortDelay /\ task'[k].retryDelay <= MaxRetryDelay)
             /\ (o # 0 /\ task[k].pc = "probe" /\ task'[k].pc = "hostwait")
                => /\ status'[o] = "error" /\ lastError'[o] = ErrHost
                   /\ task'[k].retryDelay
                        = (IF task[k].wasNetworkDown THEN ShortDelay ELSE task[k].retryDelay)
             /\ (o # 0 /\ task[k].pc = "hostwait" /\ task'[k].pc = "top")
                => task'[k].retryDelay
                     = (IF 2 * task[k].retryDelay > MaxRetryDelay THEN MaxRetryDelay
                        ELSE 2 * task[k].retryDelay)]_vars

(* A loop waits the capped delay after the host was unreachable again. *)
C17_CapReached ==
    \E k \in Tasks :
        /\ task[k].obj # 0 /\ task[k].pc = "hostwait"
        /\ task[k].retryDelay = MaxRetryDelay
        /\ lastError[task[k].obj] = ErrHost

(* C20: killProcessesOnPort on a port for which the listing names no owner *)
(* returns no error and signals no process: the processes are as they      *)
(* were.  So an AddTunnel that found the port still bound after such a     *)
(* reclamation has signalled nothing.                                      *)
C20_NoOwnersNoSignal ==
    /\ \A port \in Ports, lsof \in BOOLEAN, sig \in BOOLEAN :
          (~lsof \/ (Listeners(port) = {} /\ ext[port] # "running"))
          => killProcessesOnPort(port, lsof, sig)
               = [err |-> FALSE, task |-> task, ext |-> ext]
    /\ (ret.op = "add" /\ ret.err = RetStillBusy) => ~ret.reclaimed

(* AddTunnel has called the reclamation on a bound port whose owners were  *)
(* not listed, and the port is bound as before.                            *)
C20_ReclaimedNothing ==
    /\ ret.op = "add" /\ ret.err = RetStillBusy
    /\ \E port \in Ports : ext[port] = "running"

(* The (name, status, error, pid) tuples of a list of snapshots, and those *)
(* of the Tunnels as they are.  lastSnapshots holds the list of the tick    *)
(* before: a tick that broadcasts stores its list, one that does not found *)
(* its list equal to the stored one.                                       *)
Fingerprint(snaps) == {snaps[i] : i \in DOMAIN snaps}
CurrentFingerprint ==
    {StatusSnapshot(TunnelStatus(tunnels[n])) : n \in {m \in Names : tunnels[m] # 0}}

(* C18: a tick of the status broadcaster publishes no status_update when    *)
(* every Tunnel has the (name, status, error, pid) tuple it had at the tick *)
(* before, and exactly one status_update when a field of a Tunnel differs.  *)
C18_BroadcastOnChange ==
    [][ret'.op = "tick"
         => published' = (IF CurrentFingerprint = Fingerprint(lastSnapshots) THEN 0 ELSE 1)]_vars

(* C19: in the status list the uptime of a Tunnel is empty whenever its     *)
(* status is not connected or it became connected less than the stability  *)
(* window of 5s ago, and not empty whenever it is connected and became so   *)
(* at least 5s ago; connectedAt is the time the status became connected.    *)
C19_UptimeAfterWindow ==
    /\ [](\A order \in Orders : \A i \in DOMAIN order :
            LET o == tunnels[order[i]]
            IN GetStatus(order)[i].uptime = <<>>
                 <=> ~(status[o] = "connected" /\ now - connectedAt[o] >= StabilityWindow))
    /\ [][\A o \in Objs : status'[o] = "connected" /\ status[o] # "connected"
                            => connectedAt'[o] = now']_vars

C19_StableUptime ==
    \E n \in Names :
        /\ tunnels[n] # 0
        /\ status[tunnels[n]] = "connected"
        /\ now - connectedAt[tunnels[n]] = StabilityWindow
        /\ Uptime(tunnels[n]) = <<StabilityWindow>>

(* C21: in a call of killProcessesOnPort, a process that was sent TERM,     *)
(* ignores it and is still there is sent KILL after the grace period, and   *)
(* the call returns failure if and only if a process is still listed on the *)
(* port at the final listing, after the KILL pass and the second wait.      *)
C21_ForceKillThenVerdict ==
    /\ [](rc.pc \in {"settle", "done"}
            => \A p \in rc.termed :
                 rc.kind[p] = "stubborn" => p \in rc.killed \cup rc.gone)
    /\ [][rc.pc = "settle" /\ rc'.pc = "done" => (rc'.err <=> rc.owners # {})]_vars

C21_ForcedOut ==
    /\ rc.pc = "done" /\ ~rc.err
    /\ \E p \in rc.termed \cap rc.killed : rc.kind[p] = "stubborn" /\ p \in rc.gone

(* C22: within one call of killProcessesOnPort every process that is sent   *)
(* KILL was sent TERM earlier in that call.                                *)
C22_TermBeforeKill == rc.killed \subseteq rc.termed

(* C23: a publish never waits for a subscriber: the send of an iteration    *)
(* can always be taken; it leaves the queue of a subscriber that holds      *)
(* QueueCap messages as it is, appends the message to the queue of any      *)
(* other subscriber, and touches no other queue; the call returns only      *)
(* when every subscriber registered at its start has had its iteration.     *)
C23_DropWhenFull ==
    /\ [](\A b \in Bcasts : \A client \in sse.bc[b].todo : ENABLED BroadcastSend(b, client))
    /\ [][\A b \in Bcasts : \A client \in sse.bc[b].todo \ sse'.bc[b].todo :
            /\ sse'.queue[client] =
                 IF Len(sse.queue[client]) = QueueCap THEN sse.queue[client]
                 ELSE Append(sse.queue[client], sse.bc[b].msg)
            /\ \A other \in Chans \ {client} : sse'.queue[other] = sse.queue[other]]_vars
    /\ [][\A b \in Bcasts : sse.bc[b].pc = "loop" /\ sse'.bc[b].pc = "idle"
            => sse.bc[b].sent \cup sse.bc[b].dropped = sse.clients]_vars

C23_OneDroppedOneServed ==
    \E b \in Bcasts :
        /\ sse.bc[b].todo = {}
        /\ sse.bc[b].dropped # {}
        /\ sse.bc[b].sent # {}

(* C24: under any interleaving of AddSSEClient, RemoveSSEClient and         *)
(* BroadcastSSE no send is made on a closed channel, and the queue of a     *)
(* subscriber whose RemoveSSEClient has returned gets no further message.   *)
C24_NoSendAfterRemove ==
    /\ [](~sse.panicked)
    /\ [][\A client \in sse.closed :
            Len(sse'.queue[client]) <= Len(sse.queue[client])]_vars

C24_RemovedWhilePublishing ==
    \E b \in Bcasts, client \in sse.closed :
        /\ sse.bc[b].pc = "loop"
        /\ sse.bc[b].sent # {}
        /\ sse.queue[client] # <<>>

(* C25: the first observation of the monitor invokes no callback and emits  *)
(* no event; a later poll whose result differs from lastNetworkState        *)
(* invokes every registered callback exactly once with the new state and    *)
(* emits exactly one network_change event, previous the old state and       *)
(* available the new one; a poll with the same result does neither.         *)
C25_NotifyOnChange ==
    [][\A g \in Loops :
        /\ (nm.loop[g].pc = "first" /\ nm'.loop[g].pc = "poll")
              => nm'.calls = <<>> /\ nm'.events = <<>> /\ nm'.pending = nm.pending
        /\ (nm.loop[g].pc = "poll" /\ nm'.op = "poll")
              => LET old == nm.loop[g].last
                     new == nm'.loop[g].last
                 IN IF new # old
                    THEN /\ Len(nm'.calls) = nm.callbacks
                         /\ \A i \in 1..nm.callbacks :
                               nm'.calls[i] = [callback |-> i, isConnected |-> new]
                         /\ nm'.pending[new] = nm.pending[new] + nm.callbacks
                         /\ nm'.pending[old] = nm.pending[old]
                         /\ nm'.events = <<[type |-> "network_change", available |-> new,
                                            previous |-> old]>>
                    ELSE nm'.calls = <<>> /\ nm'.events = <<>> /\ nm'.pending = nm.pending]_vars

C25_Notified ==
    /\ nm.op = "poll"
    /\ Len(nm.calls) = MaxCallbacks
    /\ nm.events = <<[type |-> "network_change", available |-> TRUE, previous |-> FALSE]>>

(* C26: whatever Start calls are made, one after another or at once, at     *)
(* most one monitor goroutine runs.                                         *)
C26_OneLoop ==
    Cardinality({g \in Loops : nm.loop[g].pc # "none"})
      + Cardinality({s \in Starters : nm.starter[s] = "spawn"}) <= 1

C26_SecondStartIgnored ==
    /\ nm.op = "start_noop"
    /\ \E g \in Loops : nm.loop[g].pc = "poll"

(* The Tunnels of the collection. *)
Registered == {tunnels[n] : n \in Names} \ {0}

(* C27: the manager's callback, run for a transition to up, sets to         *)
(* disconnected and clears the error of every Tunnel of the collection      *)
(* whose status is error with an error text that names the network, and     *)
(* leaves the status and error of every other Tunnel as they are; run for   *)
(* a transition to down it changes no status and no error.                  *)
C27_RestoreNetworkErrors ==
    [][\A isConnected \in BOOLEAN :
         nm'.pending[isConnected] < nm.pending[isConnected]
           => \A o \in Registered :
                IF isConnected /\ status[o] = "error" /\ ContainsNetwork(lastError[o])
                THEN status'[o] = "disconnected" /\ lastError'[o] = ""
                ELSE status'[o] = status[o] /\ lastError'[o] = lastError[o]]_vars

(* The goroutines of the registered Tunnels other than o. *)
OthersOf(o) == {j \in Tasks : task[j].obj \in Registered \ {o}}

(* Step leaves the goroutine j and its live ssh process alive. *)
Spared(j) ==
    /\ task'[j].obj = task[j].obj
    /\ task[j].proc \in LiveProc => task'[j].proc \in LiveProc

(* C28: the port check and reclamation at the head of a Tunnel's connect(), *)
(* and the AddTunnel call that creates a Tunnel, end neither the ssh        *)
(* process nor the supervision goroutine of another registered Tunnel,      *)
(* also when both forward the same local port.                              *)
C28_TunnelsIsolated ==
    [][/\ \A k \in Tasks :
            task[k].obj # 0 /\ task[k].pc = "c_port" /\ task'[k].pc # "c_port"
              => \A j \in OthersOf(task[k].obj) : Spared(j)
       /\ ret'.op = "add" /\ ret' # ret
              => \A j \in OthersOf(tunnels[ret'.name]) : Spared(j)]_vars

(* C30: a Start that finds the status connecting or connected launches no   *)
(* goroutine, cancels no context and leaves status, lastError, the process  *)
(* handle and the cancel function as they are.                              *)
C30_StartSkips ==
    [][\A o \in Objs :
         (starts'[o] = starts[o] - 1 /\ status[o] \in {"connecting", "connected"})
           => /\ task' = task
              /\ cancel' = cancel
              /\ status' = status
              /\ lastError' = lastError
              /\ cmd' = cmd]_vars

(* An enabled Tunnel whose launched Starts have all run and which has no    *)
(* goroutine with a live context: its last Start was skipped.               *)
C30_SkippedStart ==
    \E n \in Names :
        LET o == tunnels[n]
        IN /\ o # 0 /\ config[o].enabled /\ starts[o] = 0
           /\ status[o] \in {"connecting", "connected"}
           /\ \A k \in Supervisors(o) : task[k].cancelled

(* A goroutine of the Tunnel o is inside connect(). *)
Attempting(o) ==
    \E k \in Supervisors(o) :
        task[k].pc \in {"c_port", "c_cmd", "c_start", "c_poll", "c_up", "c_wait", "c_fail"}

(* C29: under fair scheduling, with the network up and the host reachable,  *)
(* an enabled Tunnel whose connect() has returned, after a failed attempt   *)
(* or the exit of its ssh process, gets a new connect attempt unless it is  *)
(* disabled or removed first, whatever toggles came before.                 *)
C29_Reconnects ==
    \A n \in Names :
        (/\ tunnels[n] # 0 /\ config[tunnels[n]].enabled
         /\ ~Attempting(tunnels[n])
         /\ lastError[tunnels[n]] \in ConnectFailures \cup {ErrTunnelFailed})
        ~> (tunnels[n] = 0 \/ ~config[tunnels[n]].enabled \/ Attempting(tunnels[n]))


(* C31: a health check of a Tunnel whose status is not connected changes    *)
(* no field of any Tunnel (the time of the check, which nothing but the     *)
(* status list reads, is not part of the state); one of a connected Tunnel  *)
(* either changes nothing or sets the status to error with an error text.   *)
(* It never touches the process handle, the processes, the cancel function  *)
(* or the goroutines, nor another Tunnel.                                   *)
C31_HealthCheckFrame ==
    [][\A k \in Tasks, net \in BOOLEAN :
         HealthCheck(k, net)
           => LET o == task[k].obj
              IN /\ UNCHANGED <<tunnels, store, config, cmd, cancel, starts, task, ext>>
                 /\ \A p \in Objs \ {o} :
                        status'[p] = status[p] /\ lastError'[p] = lastError[p]
                 /\ \A p \in Objs :
                        status'[p] = "connected" => connectedAt'[p] = connectedAt[p]
                 /\ \/ status'[o] = status[o] /\ lastError'[o] = lastError[o]
                    \/ /\ status[o] = "connected"
                       /\ status'[o] = "error" /\ lastError'[o] # ""]_vars

(* A health check has failed: the status is error with its text while the  *)
(* ssh process lives on and the context is not cancelled.                  *)
C31_FailedCheckLeftProcess ==
    \E o \in Objs :
        /\ status[o] = "error" /\ lastError[o] \in {ErrHealthPort, ErrHealthNetwork}
        /\ cmd[o] \in Tasks /\ task[cmd[o]].proc \in LiveProc
        /\ cancel[o] \in Tasks /\ ~task[cancel[o]].cancelled


(* Where a goroutine is inside connect(). *)
InConnect == {"c_port", "c_cmd", "c_start", "c_poll", "c_up", "c_wait", "c_fail"}

(* C32: a goroutine that leaves connect(), with success or failure, is in   *)
(* the timed wait with a delay above zero, or has ended there because its   *)
(* context was cancelled; and it leaves that wait only when the timer of    *)
(* that delay fires, which takes it to the head of the loop, or by ending   *)
(* on cancellation.  connect() is entered from the checks at the head of    *)
(* the loop only.                                                           *)
C32_WaitBetweenConnects ==
    [][\A k \in Tasks :
         /\ (task[k].pc \in InConnect /\ task'[k].pc \notin InConnect)
              => \/ task'[k].pc = "retry" /\ task'[k].retryDelay > 0
                 \/ task'[k] = FreeTask /\ task[k].cancelled
         /\ (task[k].obj # 0 /\ task[k].pc = "retry" /\ task'[k].pc # "retry")
              => \/ task'[k].pc = "top" /\ task[k].retryDelay > 0
                 \/ task'[k] = FreeTask /\ cancel[task[k].obj] = k
         /\ (task[k].pc \notin InConnect /\ task'[k].pc \in InConnect)
              => task[k].pc = "probe"]_vars

(* The timer fired after a connect() that had succeeded: the goroutine is   *)
(* back at the head of its loop with the moderate delay.                    *)
C32_WaitedAfterSuccess ==
    \E k \in Tasks :
        /\ task[k].obj # 0 /\ ~task[k].cancelled
        /\ task[k].pc = "top" /\ task[k].retryDelay = ModerateDelay


(* C33: connect() goes on from its port check towards spawning ssh only     *)
(* when the local port can be bound once the check and the reclamation are  *)
(* over; when it cannot, connect() has set the status to error and          *)
(* returned failure.                                                        *)
C33_SpawnOnlyOnFreePort ==
    [][\A k \in Tasks :
         (task[k].obj # 0 /\ task[k].pc = "c_port")
           => IF isPortAvailable(config[task[k].obj].localPort)'
              THEN TRUE
              ELSE /\ task'[k].pc \notin InConnect
                   /\ (task'[k].obj = task[k].obj
                         => status'[task[k].obj] = "error" /\ ~task'[k].success)]_vars


(* C34: when connect() returns failure after cmd.Start() has succeeded,    *)
(* the process it started is not alive, the status is error and lastError  *)
(* is not empty.                                                           *)
C34_FailureKillsProcess ==
    [][\A k \in Tasks :
         LET o == task[k].obj
         IN (/\ o # 0 /\ task[k].pc \in InConnect /\ task'[k].pc \notin InConnect
             /\ task[k].proc \in LiveProc \cup ExitedProc
             /\ IF task'[k].obj # 0 THEN ~task'[k].success ELSE task[k].pc = "c_fail"
             /\ Used(o, tunnels', starts', task'))
              => /\ status'[o] = "error" /\ lastError'[o] # ""
                 /\ task'[k].proc \notin LiveProc]_vars

(* connect() has returned failure after it had started ssh: the goroutine  *)
(* waits to retry, the handle is that of an exited process.                *)
C34_KilledAfterTimeout ==
    \E k \in Tasks :
        /\ task[k].obj # 0 /\ task[k].pc = "retry" /\ ~task[k].success
        /\ status[task[k].obj] = "error" /\ lastError[task[k].obj] = ErrEstablish
        /\ cmd[task[k].obj] = DeadCmd


(* C35: a call that is in its reclamation (lsof, kill, the sleeps) or in    *)
(* its port and network probes holds neither tm.mutex nor the mutex of a    *)
(* Tunnel.                                                                  *)
C35_NoExternalUnderLock ==
    \A t \in Threads : lk.th[t].external => Holds(t) = {}

(* C39: a call asks for tm.mutex only while it holds no mutex, and never    *)
(* for a mutex it holds; and under fair scheduling every call that waits    *)
(* in Lock() or RLock() gets the mutex.                                     *)
C39_DeadlockFree ==
    /\ [](\A t \in Threads :
            (Running(t) /\ ~lk.th[t].waiting /\ Op(t)[1] \in {"Lock", "RLock"})
              => /\ Op(t)[2] \notin Holds(t)
                 /\ Op(t)[2] = 0 => Holds(t) = {})
    /\ \A t \in Threads : lk.th[t].waiting ~> ~lk.th[t].waiting

(* A call that holds tm.mutex waits for the mutex of a Tunnel while the    *)
(* call that holds it is in its reclamation or probes.                     *)
C39_WaitsBehindExternal ==
    \E t, u \in Threads :
        /\ lk.th[t].waiting /\ 0 \in Holds(t)
        /\ Op(t)[2] \in Objs /\ lk.mu[Op(t)[2]].w = u
        /\ lk.th[u].external


(* C36: a maintain goroutine whose context has been cancelled, by a Stop   *)
(* that has returned, takes no step that changes the status or the error   *)
(* of its Tunnel or that starts an ssh process.                            *)
C36_CancelledIsInert ==
    [][\A k \in Tasks :
         LET o == task[k].obj
         IN (/\ o # 0 /\ task[k].cancelled
             /\ task'[k].pc # task[k].pc
             /\ Used(o, tunnels', starts', task'))
              => /\ status'[o] = status[o]
                 /\ lastError'[o] = lastError[o]
                 /\ task'[k].proc \in LiveProc => task[k].proc \in LiveProc]_vars


(* C37: the process handle of a Tunnel of the collection whose status is   *)
(* disconnected is absent or that of a process that is not running.        *)
C37_DisconnectedHasNoProcess ==
    \A o \in Registered :
        status[o] = "disconnected"
          => ~(cmd[o] \in Tasks /\ task[cmd[o]].proc \in LiveProc)


(* C38: the poll of connect() that finds the tunnel established, after     *)
(* which connect() writes the status connected, finds it so only when the  *)
(* ssh process this connect() started is running and is the one that       *)
(* listens on the local port.                                              *)
C38_ConnectedOnlyOwnListener ==
    [][\A k \in Tasks :
         (task[k].obj # 0 /\ task[k].pc = "c_poll" /\ task'[k].pc = "c_up")
           => task[k].proc = "bound"]_vars


(* C40: no health-check goroutine faults: none reads a cleared             *)
(* healthTicker when it enters its select, and none runs a deferred Stop   *)
(* on a nil ticker when it returns.                                        *)
C40_HealthCheckerNeverFaults ==
    \A i \in Tickers : hm.g[i].pc # "fault"

====
